---------------------------- MODULE Spec2Model ----------------------------
(***************************************************************************)
(* Campus photo collection: the React front end (Dashboard, Gallery,       *)
(* Explore, Upload, route gate, API client) and the photo service it       *)
(* talks to (ingestion pipeline, store, role-scoped retrieval).            *)
(*                                                                         *)
(* The front end is translated from the sources under src/.  The photo     *)
(* service (app/ in the repository layout) has no source under src/; its   *)
(* operators are written from the design document and are marked so where  *)
(* they are defined.                                                       *)
(***************************************************************************)
EXTENDS Integers, Sequences, FiniteSets, TLC

VARIABLES
    \* ---- photo service: durable state
    dbPhotos,        \* Photo rows: id -> [is_public, state, caption, tags]
    uploads,         \* blob store: ids of the photos whose file is in uploads/
    nextId,          \* the id the next Photo row gets
    tagRows,         \* Tag rows: canonical tag name -> number of rows of that name
    \* ---- photo service: ingestion pipeline
    modelsLoaded,    \* Model Adapter: loaded (TRUE) or disabled (FALSE)
    jobs,            \* running ingest calls: slot -> position and locals
    returned,        \* ids of the photos that ingest has returned
    deletedIds,      \* ids of the photos removed by delete
    lastDelete,      \* the delete request handled last: [by, id, outcome]
    \* ---- Clerk session and router
    isLoaded,        \* useUser().isLoaded
    principal,       \* signed-in user, or NoUser (isSignedIn == principal # NoUser)
    location,        \* location.pathname
    mutations,       \* log of the mutation requests started: [kind, by]
    \* ---- Dashboard / Gallery component state
    page,            \* which of the two components is mounted
    photos,          \* useState([])  photos
    loading,         \* useState(true)
    error,           \* useState(null)
    userRole,        \* useState(null)
    searchQuery,     \* useState('')
    selectedTags,    \* Gallery: useState([])
    sortBy,          \* Gallery: useState('recent')
    filteredPhotos,  \* Gallery: useState([]), written by the filter effect
    allTags,         \* Gallery: useState([]), written by loadUserAndPhotos
    selectedPhoto,   \* useState(null): the id of the photo in the modal, 0 for null
    load,            \* the running loadUserAndPhotos call: its position and locals
    delOps,          \* the running handleDeletePhoto calls: slot -> position and locals
    alert,           \* the window.alert dialog on screen: NoAlert, or the id of
                     \* the photo whose delete failed
    deletedOk,       \* ids whose delete request this page saw succeed
    \* ---- Explore component state
    exPhotos,        \* useState([])  photos
    exLoading,       \* useState(true)
    exError,         \* useState(null)
    exSelected,      \* useState(null) selectedPhoto
    exLoad,          \* position of the running loadPhotos call
    exQuery,         \* useState(searchParams.get('q') || '')  searchQuery
    \* ---- Upload component state
    inputFile,       \* the file input element's files[0] (DOM state)
    selectedFile,    \* useState(null)
    preview,         \* useState(null): the file whose data URL is shown
    uploadTitle,     \* useState('')   title
    uploadDescription, \* useState('') description
    uploading,       \* useState(false)
    uploadedPhoto,   \* useState(null)
    uploadError,     \* useState(null) error
    readers,         \* files whose FileReader has not called onloadend yet
    uploadCall,      \* the running handleUpload call: its position and locals
    \* ---- API client (axios instance)
    authHeader,      \* api.defaults.headers.common['Authorization'], or NoHeader
    requests,        \* the calls made: slot -> position, token and header sent
    \* ---- App component state
    appRole,         \* useState(null) userRole
    roleLoaded,      \* useState(false)
    roleFetch,       \* users whose getCurrentUser call of the role effect is in flight
    effectSeen,      \* the dependencies the role effect last ran with, or NotRun
    \* ---- PhotoCard component state, per photo id
    showDeleteConfirm, \* useState(false)
    isDeleting,      \* useState(false)
    cardCall         \* the handleDeletePhoto call the card's handleDelete awaits
                     \* (its slot in delOps), 0 for none

storeVars == <<dbPhotos, uploads, nextId, tagRows>>
ingestVars == <<modelsLoaded, jobs, returned, deletedIds, lastDelete>>
gateVars  == <<isLoaded, principal, location, mutations>>
pageVars  == <<page, photos, loading, error, userRole, searchQuery, selectedTags,
               sortBy, filteredPhotos, allTags, selectedPhoto, load, delOps, alert,
               deletedOk>>
exVars    == <<exPhotos, exLoading, exError, exSelected, exLoad, exQuery>>
uploadVars == <<inputFile, selectedFile, preview, uploadTitle, uploadDescription, uploading,
                uploadedPhoto, uploadError, readers, uploadCall>>
apiVars   == <<authHeader, requests>>
appVars   == <<appRole, roleLoaded, roleFetch, effectSeen>>
cardVars  == <<showDeleteConfirm, isDeleting, cardCall>>
vars      == <<storeVars, ingestVars, gateVars, pageVars, exVars, uploadVars,
               apiVars, appVars, cardVars>>

-----------------------------------------------------------------------------
(* Bounds of the model *)

\* Photo ids that exist during a run: 1..MaxPhotoId
MaxPhotoId == 3
\* handleDeletePhoto calls that may be in flight at once
MaxDeleteOps == 2

PhotoIds == 1..MaxPhotoId

-----------------------------------------------------------------------------
(* Values *)

NoUser == "none"
Null   == <<>>                      \* null / undefined of an optional field
Some(x) == <<x>>                    \* a present optional field
IsNull(o) == o = <<>>
Val(o) == o[1]

\* Strings are sequences of characters, so that toLowerCase() and includes()
\* are computed and not assumed.
EmptyStr == <<>>
ToLowerChar(c) ==
    CASE c = "A" -> "a"
      [] c = "B" -> "b"
      [] c = "C" -> "c"
      [] OTHER   -> c
toLowerCase(s) == [i \in 1..Len(s) |-> ToLowerChar(s[i])]
\* String.prototype.includes: q occurs in s as a contiguous substring
includes(s, q) ==
    \E i \in 0..(Len(s) - Len(q)) : SubSeq(s, i + 1, i + Len(q)) = q

RECURSIVE SelectSeqBy(_, _)
\* Array.prototype.filter with the predicate given as the set of kept elements
SelectSeqBy(s, keep) ==
    IF s = <<>> THEN <<>>
    ELSE IF Head(s) \in keep THEN <<Head(s)>> \o SelectSeqBy(Tail(s), keep)
         ELSE SelectSeqBy(Tail(s), keep)

Range(s) == {s[i] : i \in 1..Len(s)}
Ids(s) == {s[i].id : i \in 1..Len(s)}

-----------------------------------------------------------------------------
(* Photo service: users, photo rows and role-scoped retrieval.              *)
(* Written from the design document (sections 3, 4.3, 4.4): the service's   *)
(* code is not among the sources.                                           *)

Users == {"alice", "bob", "root"}

\* User.role
RoleOf(u) == IF u = "root" THEN "admin" ELSE "user"

\* What each upload was submitted with: owner, title, description and the
\* creation timestamp.  Photos 1 and 2 share a timestamp; photo 2 has no
\* title, description or caption.
OwnerOf(id) == IF id \in {1, 2} THEN "alice" ELSE "bob"
TitleOf(id) ==
    CASE id = 1 -> Some(<<"A", "b">>)
      [] id = 2 -> Null
      [] OTHER  -> Some(<<"b", "c">>)
DescriptionOf(id) == IF id = 1 THEN Some(<<"c">>) ELSE Null
UploadedAt(id) == IF id \in {1, 2} THEN 10 ELSE 10 + 10 * (id - 2)

\* Tags as the service returns them: an object {name, confidence} or a plain
\* name.  Confidence is kept in hundredths.
TagObj(n, c) == [name |-> n, confidence |-> c, plain |-> FALSE]
TagPlain(n)  == [name |-> n, confidence |-> 0, plain |-> TRUE]

\* The row an already ingested photo has at the start of a run
InitialRow(id) ==
    [is_public |-> (id = 1),
     state     |-> "tagged",
     caption   |-> IF id = 2 THEN Null ELSE Some(<<"b", "a">>),
     tags      |-> CASE id = 1 -> <<TagObj(<<"c", "a">>, 92), TagPlain(<<"B">>)>>
                     [] id = 2 -> <<>>
                     [] OTHER  -> <<TagObj(<<"b">>, 81)>>]

\* The photo object of the API responses
PhotoJson(db, id) ==
    [id          |-> id,
     user_id     |-> OwnerOf(id),
     title       |-> TitleOf(id),
     description |-> DescriptionOf(id),
     caption     |-> db[id].caption,
     tags        |-> db[id].tags,
     uploaded_at |-> UploadedAt(id),
     is_public   |-> db[id].is_public]

RECURSIVE MostRecentFirst(_)
\* Default order of the retrieval modes: creation timestamp descending, ties
\* in insertion order (ascending id)
MostRecentFirst(ids) ==
    IF ids = {} THEN <<>>
    ELSE LET first == CHOOSE i \in ids : \A j \in ids :
                          \/ UploadedAt(i) > UploadedAt(j)
                          \/ UploadedAt(i) = UploadedAt(j) /\ i <= j
         IN  <<first>> \o MostRecentFirst(ids \ {first})

ViewOf(db, ids) ==
    LET order == MostRecentFirst(ids)
    IN  [k \in 1..Len(order) |-> PhotoJson(db, order[k])]

\* GET /api/users/me/photos
OwnerView(db, u) == ViewOf(db, {i \in DOMAIN db : OwnerOf(i) = u})
\* GET /api/photos (admin)
AdminView(db) == ViewOf(db, DOMAIN db)
\* GET /api/photos/explore
ExploreView(db) == ViewOf(db, {i \in DOMAIN db : db[i].is_public})

\* Variant: a requester who may not delete the photo is told it does not exist
DeleteOutcome_HidesExistence(db, u, id) ==
    IF id \notin DOMAIN db THEN "not_found"
    ELSE IF OwnerOf(id) = u \/ RoleOf(u) = "admin" THEN "ok"
    ELSE "not_found"

\* DELETE /api/photos/{id}: the outcome for a verified requester
DeleteOutcome(db, u, id) ==
    IF id \notin DOMAIN db THEN "not_found"
    ELSE IF OwnerOf(id) = u \/ RoleOf(u) = "admin" THEN "ok"
    ELSE "not_authorized"

\* No delete request has been handled
NoDelete == [by |-> NoUser, id |-> 0, outcome |-> "none"]

\* Tag.name is case-normalized
CanonicalName(n) == toLowerCase(n)
TagNamesOf(row) == {CanonicalName(row.tags[i].name) : i \in 1..Len(row.tags)}

Without(f, id) == [i \in DOMAIN f \ {id} |-> f[i]]
With(f, id, v) == [i \in DOMAIN f \cup {id} |-> IF i = id THEN v ELSE f[i]]

-----------------------------------------------------------------------------
(* Dashboard.jsx and Gallery (pages/Gallery.jsx): filtering and sorting     *)

\* photo.title?.toLowerCase().includes(q.toLowerCase()): undefined (falsy)
\* for an absent field
FieldIncludes(field, q) ==
    /\ ~IsNull(field)
    /\ includes(toLowerCase(Val(field)), toLowerCase(q))

\* tag.name || tag
TagKey(tag) == tag.name

MatchesText(photo, q) ==
    \/ FieldIncludes(photo.title, q)
    \/ FieldIncludes(photo.description, q)
    \/ FieldIncludes(photo.caption, q)

\* Dashboard: const filteredPhotos = photos.filter(...)
DashboardFiltered(ps, q) ==
    SelectSeqBy(ps, {p \in Range(ps) : MatchesText(p, q)})

\* Gallery: the search also looks into the tag names
GalleryMatchesText(photo, q) ==
    \/ MatchesText(photo, q)
    \/ \E i \in 1..Len(photo.tags) :
          includes(toLowerCase(TagKey(photo.tags[i])), toLowerCase(q))

\* photo.tags?.some(tag => selectedTags.includes(tag.name || tag))
MatchesTags(photo, sel) ==
    \E i \in 1..Len(photo.tags) : TagKey(photo.tags[i]) \in Range(sel)

CharRank(c) ==
    CASE c \in {"a", "A"} -> 1
      [] c \in {"b", "B"} -> 2
      [] c \in {"c", "C"} -> 3
      [] OTHER -> 4
IsUpper(c) == c \in {"A", "B", "C"}

RECURSIVE PrimaryCompare(_, _)
\* Alphabetical comparison ignoring case: -1, 0 or 1
PrimaryCompare(a, b) ==
    IF a = <<>> /\ b = <<>> THEN 0
    ELSE IF a = <<>> THEN -1
    ELSE IF b = <<>> THEN 1
    ELSE IF CharRank(Head(a)) < CharRank(Head(b)) THEN -1
    ELSE IF CharRank(Head(a)) > CharRank(Head(b)) THEN 1
    ELSE PrimaryCompare(Tail(a), Tail(b))

RECURSIVE CaseCompare(_, _)
\* Between strings equal but for case: lower case first at the first difference
CaseCompare(a, b) ==
    IF a = <<>> \/ b = <<>> THEN 0
    ELSE IF IsUpper(Head(a)) = IsUpper(Head(b)) THEN CaseCompare(Tail(a), Tail(b))
    ELSE IF IsUpper(Head(b)) THEN -1 ELSE 1

\* String.prototype.localeCompare
localeCompare(a, b) ==
    IF PrimaryCompare(a, b) # 0 THEN PrimaryCompare(a, b) ELSE CaseCompare(a, b)

\* a.title || ''
TitleOrEmpty(photo) == IF IsNull(photo.title) THEN EmptyStr ELSE Val(photo.title)

\* Variant: 'oldest' compares like 'recent'
SortCompare_OldestAsRecent(key, a, b) ==
    CASE key = "recent" -> b.uploaded_at - a.uploaded_at
      [] key = "oldest" -> b.uploaded_at - a.uploaded_at
      [] key = "title"  -> localeCompare(TitleOrEmpty(a), TitleOrEmpty(b))
      [] OTHER          -> 0

\* The comparator of each sort key: negative when a sorts before b
SortCompare(key, a, b) ==
    CASE key = "recent" -> b.uploaded_at - a.uploaded_at
      [] key = "oldest" -> a.uploaded_at - b.uploaded_at
      [] key = "title"  -> localeCompare(TitleOrEmpty(a), TitleOrEmpty(b))
      [] OTHER          -> 0

RECURSIVE InsertSorted_Unstable(_, _, _)
\* Variant: an element is placed before the elements it compares equal to
InsertSorted_Unstable(key, x, s) ==
    IF s = <<>> THEN <<x>>
    ELSE IF SortCompare(key, x, Head(s)) <= 0 THEN <<x>> \o s
         ELSE <<Head(s)>> \o InsertSorted_Unstable(key, x, Tail(s))

RECURSIVE InsertSorted(_, _, _)
InsertSorted(key, x, s) ==
    IF s = <<>> THEN <<x>>
    ELSE IF SortCompare(key, x, Head(s)) < 0 THEN <<x>> \o s
         ELSE <<Head(s)>> \o InsertSorted(key, x, Tail(s))

RECURSIVE SortedFrom(_, _, _)
SortedFrom(key, s, acc) ==
    IF s = <<>> THEN acc
    ELSE SortedFrom(key, Tail(s), InsertSorted(key, Head(s), acc))

\* [...filtered].sort(comparator): Array.prototype.sort is stable
SortPhotos(key, s) ==
    IF key \in {"recent", "oldest", "title"} THEN SortedFrom(key, s, <<>>) ELSE s

\* Gallery: the effect on [selectedTags, photos, searchQuery, sortBy]
GalleryFilterEffect(ps, sel, q, key) ==
    LET byTags == IF Len(sel) > 0
                  THEN SelectSeqBy(ps, {p \in Range(ps) : MatchesTags(p, sel)})
                  ELSE ps
        byText == IF q # EmptyStr
                  THEN SelectSeqBy(byTags, {p \in Range(byTags) : GalleryMatchesText(p, q)})
                  ELSE byTags
    IN  SortPhotos(key, byText)

-----------------------------------------------------------------------------
(* Photo service: answers to the requests of the pages (design document     *)
(* sections 4.3 and 4.4; the token is the verified subject)                 *)

\* GET /api/users/me
UserResponse(token) ==
    IF token = NoUser THEN [ok |-> FALSE, role |-> "none"]
    ELSE [ok |-> TRUE, role |-> RoleOf(token)]

\* The three photo listings
PhotosResponse(db, token, api) ==
    CASE api = "getExplorePhotos" -> [ok |-> TRUE, data |-> ExploreView(db)]
      [] token = NoUser           -> [ok |-> FALSE, data |-> <<>>]
      [] api = "getUserPhotos"    -> [ok |-> TRUE, data |-> OwnerView(db, token)]
      [] api = "getAllPhotos"     ->
            IF RoleOf(token) = "admin" THEN [ok |-> TRUE, data |-> AdminView(db)]
            ELSE [ok |-> FALSE, data |-> <<>>]
      [] OTHER                    -> [ok |-> FALSE, data |-> <<>>]

-----------------------------------------------------------------------------
(* Dashboard.jsx / Gallery: loadUserAndPhotos                               *)

NoError == "null"
NoAlert == 0
NoUploadCall == [pc |-> "idle", file |-> Null, metadata |-> Null, response |-> Null]
FailedToLoad == "Failed to load photos"

\* State of a component right after it is mounted: the useState initial
\* values, with the mount effect's loadUserAndPhotos waiting for getToken()
LoadStart == [pc |-> "getToken", token |-> NoUser, role |-> "none", api |-> "none"]
IdleOp == [pc |-> "idle", photoId |-> 0, closure |-> <<>>, token |-> NoUser,
           resp |-> "none"]

\* The effect of Gallery after a render; Dashboard has no such state
FilterEffect(pg, ps, sel, q, key) ==
    IF pg = "Gallery" THEN GalleryFilterEffect(ps, sel, q, key) ELSE <<>>

\* Variants of the branch: every role is given the full listing; a
\* non-admin is given the public listing instead of its own
LoadPhotosApi_AllForAnyRole(role) == "getAllPhotos"
LoadPhotosApi_ExploreForUser(role) ==
    IF role = "admin" THEN "getAllPhotos" ELSE "getExplorePhotos"

\* if (userData.role === 'admin') getAllPhotos else getUserPhotos
LoadPhotosApi(role) ==
    IF role = "admin" THEN "getAllPhotos" ELSE "getUserPhotos"

\* UTF-16 code units of the characters
CodeUnit(c) ==
    CASE c = "A" -> 65 [] c = "B" -> 66 [] c = "C" -> 67
      [] c = "a" -> 97 [] c = "b" -> 98 [] c = "c" -> 99
      [] OTHER   -> 0

RECURSIVE CodeUnitLess(_, _)
\* The order of Array.prototype.sort() without a comparator
CodeUnitLess(a, b) ==
    IF b = <<>> THEN FALSE
    ELSE IF a = <<>> THEN TRUE
    ELSE IF CodeUnit(Head(a)) # CodeUnit(Head(b)) THEN CodeUnit(Head(a)) < CodeUnit(Head(b))
    ELSE CodeUnitLess(Tail(a), Tail(b))

RECURSIVE SortedNames(_)
SortedNames(names) ==
    IF names = {} THEN <<>>
    ELSE LET first == CHOOSE n \in names : \A m \in names \ {n} : CodeUnitLess(n, m)
         IN  <<first>> \o SortedNames(names \ {first})

\* loadUserAndPhotos: the unique tag names (tag.name || tag) of the loaded
\* photos, Array.from(tags).sort(); Dashboard has no such state
AllTagsOf(pg, data) ==
    IF pg = "Gallery"
    THEN SortedNames(UNION {{TagKey(data[i].tags[k]) : k \in 1..Len(data[i].tags)} :
                               i \in 1..Len(data)})
    ELSE <<>>

\* setPhotos(data)
LoadedPhotos(data) == data

\* const token = await getToken()
LoadGotToken ==
    /\ alert = NoAlert
    /\ load.pc = "getToken"
    /\ load' = [load EXCEPT !.pc = "getCurrentUser", !.token = principal]
    /\ UNCHANGED <<storeVars, ingestVars, uploadVars, gateVars, exVars, page, allTags, selectedPhoto, photos, loading, error,
                   userRole, searchQuery, selectedTags, sortBy, filteredPhotos,
                   delOps, alert, deletedOk, apiVars, appVars, cardVars>>

\* const userData = await photoAPI.getCurrentUser(token); setUserRole(...);
\* then the photo request is sent, or the catch and finally blocks run
LoadGotUser ==
    /\ alert = NoAlert
    /\ load.pc = "getCurrentUser"
    /\ \E netOk \in BOOLEAN :
          LET r == UserResponse(load.token) IN
          IF netOk /\ r.ok
          THEN /\ userRole' = r.role
               /\ load' = [load EXCEPT !.pc = "getPhotos", !.role = r.role,
                                       !.api = LoadPhotosApi(r.role)]
               /\ UNCHANGED <<error, loading>>
          ELSE /\ error' = FailedToLoad
               /\ loading' = FALSE
               /\ load' = [load EXCEPT !.pc = "done"]
               /\ UNCHANGED userRole
    /\ UNCHANGED <<storeVars, ingestVars, uploadVars, gateVars, exVars, page, allTags, selectedPhoto, photos, searchQuery,
                   selectedTags, sortBy, filteredPhotos, delOps, alert, deletedOk, apiVars, appVars, cardVars>>

\* data = await photoAPI.getAllPhotos(token) / getUserPhotos(token);
\* setPhotos(data); finally setLoading(false)
LoadGotPhotos ==
    /\ alert = NoAlert
    /\ load.pc = "getPhotos"
    /\ \E netOk \in BOOLEAN :
          LET r == PhotosResponse(dbPhotos, load.token, load.api) IN
          IF netOk /\ r.ok
          THEN /\ photos' = LoadedPhotos(r.data)
               /\ allTags' = AllTagsOf(page, r.data)
               /\ UNCHANGED error
          ELSE /\ error' = FailedToLoad
               /\ UNCHANGED <<photos, allTags>>
    /\ loading' = FALSE
    /\ load' = [load EXCEPT !.pc = "done"]
    /\ filteredPhotos' = FilterEffect(page, photos', selectedTags, searchQuery, sortBy)
    /\ UNCHANGED <<storeVars, ingestVars, uploadVars, gateVars, exVars, page, selectedPhoto, userRole,
                   searchQuery, selectedTags, sortBy, delOps, alert, deletedOk, apiVars, appVars, cardVars>>

-----------------------------------------------------------------------------
(* Dashboard.jsx / Gallery: handleDeletePhoto                               *)

\* The photos whose card (with its delete button) is rendered
Displayed ==
    IF loading \/ photos = <<>> THEN <<>>
    ELSE IF page = "Dashboard" THEN DashboardFiltered(photos, searchQuery)
    ELSE filteredPhotos

FreeSlots == {k \in DOMAIN delOps : delOps[k].pc = "idle"}

\* photos.filter(p => p.id !== photoId), over the photos the call closed over
PhotosWithout(ps, photoId) ==
    SelectSeqBy(ps, {p \in Range(ps) : p.id # photoId})

\* Variant: the photo is dropped from the list whatever the request's outcome
PhotosAfterDelete_Always(resp, closure, current, photoId) ==
    PhotosWithout(closure, photoId)

\* The try body's setPhotos after a resolved request; the catch block leaves
\* the list alone
PhotosAfterDelete(resp, closure, current, photoId) ==
    IF resp = "ok" THEN PhotosWithout(closure, photoId) ELSE current

FirstFreeSlot == CHOOSE f \in FreeSlots : \A g \in FreeSlots : f <= g

\* handleDeletePhoto(photoId) up to its first await: window.confirm, then the
\* call waits for getToken().  The call keeps the photos of the render it was
\* made in.
HandleDeleteStart(photoId, confirmed) ==
    /\ alert = NoAlert
    /\ photoId \in Ids(Displayed)
    /\ FreeSlots # {}
    /\ IF confirmed
       THEN delOps' = [delOps EXCEPT ![FirstFreeSlot] =
                          [pc |-> "getToken", photoId |-> photoId,
                           closure |-> photos, token |-> NoUser, resp |-> "none"]]
       ELSE UNCHANGED delOps
    /\ UNCHANGED <<storeVars, ingestVars, uploadVars, gateVars, exVars, page, allTags, selectedPhoto, photos, loading, error,
                   userRole, searchQuery, selectedTags, sortBy, filteredPhotos,
                   load, alert, deletedOk, apiVars, appVars>>

\* The click on the delete button of a card of the page
ClickDelete(photoId, confirmed) ==
    /\ HandleDeleteStart(photoId, confirmed)
    /\ UNCHANGED cardVars

\* const token = await getToken(); the DELETE request leaves
DeleteSend(k) ==
    /\ alert = NoAlert
    /\ delOps[k].pc = "getToken"
    /\ delOps' = [delOps EXCEPT ![k].pc = "sent", ![k].token = principal]
    /\ UNCHANGED <<storeVars, ingestVars, uploadVars, gateVars, exVars, page, allTags, selectedPhoto, photos, loading, error,
                   userRole, searchQuery, selectedTags, sortBy, filteredPhotos,
                   load, alert, deletedOk, apiVars, appVars, cardVars>>

\* The service handles the request (or the request never arrives)
ServerDelete(k) ==
    /\ delOps[k].pc = "sent"
    /\ \E netOk \in BOOLEAN :
          LET id  == delOps[k].photoId
              out == IF delOps[k].token = NoUser THEN "unauthenticated"
                     ELSE DeleteOutcome(dbPhotos, delOps[k].token, id)
          IN  IF netOk
              THEN /\ delOps' = [delOps EXCEPT ![k].pc = "answered", ![k].resp = out]
                   /\ IF out = "ok"
                      THEN /\ dbPhotos' = Without(dbPhotos, id)
                           /\ uploads' = uploads \ {id}
                           /\ UNCHANGED <<nextId, tagRows>>
                      ELSE UNCHANGED storeVars
              ELSE /\ delOps' = [delOps EXCEPT ![k].pc = "answered",
                                               ![k].resp = "network_error"]
                   /\ UNCHANGED storeVars
    /\ UNCHANGED <<ingestVars, uploadVars, gateVars, exVars, page, allTags, selectedPhoto, photos, loading, error, userRole,
                   searchQuery, selectedTags, sortBy, filteredPhotos, load,
                   alert, deletedOk, apiVars, appVars, cardVars>>

\* await photoAPI.deletePhoto(...) settles: setPhotos(photos.filter(...)), or
\* the catch block's alert
HandleDeleteEnd(k) ==
    /\ alert = NoAlert
    /\ delOps[k].pc = "answered"
    /\ photos' = PhotosAfterDelete(delOps[k].resp, delOps[k].closure, photos,
                                   delOps[k].photoId)
    /\ IF delOps[k].resp = "ok"
       THEN /\ deletedOk' = deletedOk \cup {delOps[k].photoId}
            /\ UNCHANGED alert
       ELSE /\ alert' = delOps[k].photoId
            /\ UNCHANGED deletedOk
    /\ delOps' = [delOps EXCEPT ![k] = IdleOp]
    /\ filteredPhotos' = FilterEffect(page, photos', selectedTags, searchQuery, sortBy)
    /\ UNCHANGED <<storeVars, ingestVars, uploadVars, gateVars, exVars, page, allTags, selectedPhoto, loading, error, userRole,
                   searchQuery, selectedTags, sortBy, load, apiVars, appVars>>

DeleteResume(k) ==
    /\ HandleDeleteEnd(k)
    /\ UNCHANGED cardVars

\* The user dismisses the alert dialog.  While it is open the page's script
\* is blocked: no handler and no continuation of the page runs.
DismissAlert ==
    /\ alert # NoAlert
    /\ alert' = NoAlert
    /\ UNCHANGED <<storeVars, ingestVars, uploadVars, gateVars, exVars, page, allTags, selectedPhoto, photos, loading, error,
                   userRole, searchQuery, selectedTags, sortBy, filteredPhotos,
                   load, delOps, deletedOk, apiVars, appVars, cardVars>>

-----------------------------------------------------------------------------
(* Dashboard.jsx / Gallery: the photo modal (components/PhotoModal.jsx)     *)

\* What an array gives for an index it does not have
Undefined == -1

\* filteredPhotos.findIndex(p => p.id === selectedPhoto.id), counted from 0
FindIndex(list, id) ==
    IF id \in Ids(list)
    THEN (CHOOSE i \in 1..Len(list) :
             list[i].id = id /\ \A k \in 1..(i - 1) : list[k].id # id) - 1
    ELSE -1

\* list[i], counted from 0: the id of the photo, or undefined
ElementAt(list, i) == IF i + 1 \in 1..Len(list) THEN list[i + 1].id ELSE Undefined

\* Variant: the neighbour is taken without a look at the ends of the list
NavigateTarget_NoBounds(list, sel, direction) ==
    IF direction = "prev" THEN ElementAt(list, FindIndex(list, sel) - 1)
    ELSE ElementAt(list, FindIndex(list, sel) + 1)

\* Gallery's onNavigate: what selectedPhoto is after the call
NavigateTarget(list, sel, direction) ==
    LET currentIndex == FindIndex(list, sel) IN
    IF direction = "prev" /\ currentIndex > 0 THEN ElementAt(list, currentIndex - 1)
    ELSE IF direction = "next" /\ currentIndex < Len(list) - 1
         THEN ElementAt(list, currentIndex + 1)
    ELSE sel

\* The modal is rendered: {selectedPhoto && <PhotoModal .../>}
ModalShown == selectedPhoto \notin {0, Undefined}

\* A click on a card: onClick={() => setSelectedPhoto(photo)}.  The open
\* modal covers the page
OpenModal(id) ==
    /\ alert = NoAlert
    /\ ~ModalShown
    /\ id \in Ids(Displayed)
    /\ selectedPhoto' = id
    /\ UNCHANGED <<storeVars, ingestVars, uploadVars, gateVars, exVars, page, allTags, photos,
                   loading, error, userRole, searchQuery, selectedTags, sortBy,
                   filteredPhotos, load, delOps, alert, deletedOk, apiVars, appVars, cardVars>>

\* Escape, the backdrop or a Close button: onClose
CloseModal ==
    /\ alert = NoAlert
    /\ ModalShown
    /\ selectedPhoto' = 0
    /\ UNCHANGED <<storeVars, ingestVars, uploadVars, gateVars, exVars, page, allTags, photos,
                   loading, error, userRole, searchQuery, selectedTags, sortBy,
                   filteredPhotos, load, delOps, alert, deletedOk, apiVars, appVars, cardVars>>

\* The arrow keys and arrow buttons of the modal, which Gallery gives an
\* onNavigate
Navigate(direction) ==
    /\ alert = NoAlert
    /\ ModalShown
    /\ page = "Gallery"
    /\ selectedPhoto' = NavigateTarget(filteredPhotos, selectedPhoto, direction)
    /\ UNCHANGED <<storeVars, ingestVars, uploadVars, gateVars, exVars, page, allTags, photos,
                   loading, error, userRole, searchQuery, selectedTags, sortBy,
                   filteredPhotos, load, delOps, alert, deletedOk, apiVars, appVars, cardVars>>

\* The modal's Delete button: onDelete(photo.id); onClose().  onDelete is
\* handleDeletePhoto, which runs up to its first await (window.confirm, then
\* getToken()) before onClose is called
ModalDelete(confirmed) ==
    /\ alert = NoAlert
    /\ ModalShown
    /\ FreeSlots # {}
    /\ IF confirmed
       THEN LET k == CHOOSE f \in FreeSlots : \A g \in FreeSlots : f <= g IN
            delOps' = [delOps EXCEPT ![k] =
                          [pc |-> "getToken", photoId |-> selectedPhoto,
                           closure |-> photos, token |-> NoUser, resp |-> "none"]]
       ELSE UNCHANGED delOps
    /\ selectedPhoto' = 0
    /\ UNCHANGED <<storeVars, ingestVars, uploadVars, gateVars, exVars, page, allTags, photos,
                   loading, error, userRole, searchQuery, selectedTags, sortBy,
                   filteredPhotos, load, alert, deletedOk, apiVars, appVars, cardVars>>

\* A card's delete button, which an open modal covers
CardDelete(id, confirmed) == ~ModalShown /\ ClickDelete(id, confirmed)

\* The search box: onChange={(e) => setSearchQuery(e.target.value)}; Gallery
\* also takes the query from the URL (?q=)
Queries == {EmptyStr, <<"B">>}
SetSearchQuery(q) ==
    /\ alert = NoAlert
    /\ q # searchQuery
    /\ page = "Dashboard" => ~loading /\ photos # <<>>
    /\ searchQuery' = q
    /\ filteredPhotos' = FilterEffect(page, photos, selectedTags, q, sortBy)
    /\ UNCHANGED <<storeVars, ingestVars, uploadVars, gateVars, exVars, page, allTags, selectedPhoto, photos, loading, error,
                   userRole, selectedTags, sortBy, load, delOps, alert, deletedOk, apiVars, appVars, cardVars>>

-----------------------------------------------------------------------------
(* Gallery: the filter and sort controls                                    *)

\* The sidebar (search box, tag checkboxes, sort select) is rendered when
\* allTags.length > 0
SidebarShown == page = "Gallery" /\ Len(allTags) > 0

\* prev.includes(tag) ? prev.filter(t => t !== tag) : [...prev, tag]
ToggledTags(prev, tag) ==
    IF tag \in Range(prev) THEN SelectSeqBy(prev, Range(prev) \ {tag})
    ELSE Append(prev, tag)

\* toggleTag: a checkbox of the first ten tags, or the chip of an active filter
toggleTag(tag) ==
    /\ alert = NoAlert
    /\ SidebarShown
    /\ tag \in {allTags[i] : i \in (1..Len(allTags)) \cap (1..10)} \cup Range(selectedTags)
    /\ selectedTags' = ToggledTags(selectedTags, tag)
    /\ filteredPhotos' = FilterEffect(page, photos, selectedTags', searchQuery, sortBy)
    /\ UNCHANGED <<storeVars, ingestVars, uploadVars, gateVars, exVars, page, allTags, selectedPhoto, photos,
                   loading, error, userRole, searchQuery, sortBy, load, delOps, alert,
                   deletedOk, apiVars, appVars, cardVars>>

SortKeys == {"recent", "oldest", "title"}

\* The sort select: onChange={(e) => setSortBy(e.target.value)}
SetSortBy(key) ==
    /\ alert = NoAlert
    /\ SidebarShown
    /\ key # sortBy
    /\ sortBy' = key
    /\ filteredPhotos' = FilterEffect(page, photos, selectedTags, searchQuery, key)
    /\ UNCHANGED <<storeVars, ingestVars, uploadVars, gateVars, exVars, page, allTags, selectedPhoto, photos,
                   loading, error, userRole, searchQuery, selectedTags, load, delOps, alert,
                   deletedOk, apiVars, appVars, cardVars>>

\* "Clear all" of the active filters: setSelectedTags([]); with alsoQuery,
\* the link under "No photos found matching your filters", which clears the
\* query too
ClearFilters(alsoQuery) ==
    /\ alert = NoAlert
    /\ page = "Gallery"
    /\ IF alsoQuery
       THEN /\ ~loading /\ photos # <<>>
            /\ filteredPhotos = <<>>
            /\ searchQuery # EmptyStr \/ Len(selectedTags) > 0
       ELSE SidebarShown /\ Len(selectedTags) > 0
    /\ selectedTags' = <<>>
    /\ searchQuery' = IF alsoQuery THEN EmptyStr ELSE searchQuery
    /\ filteredPhotos' = FilterEffect(page, photos, <<>>, searchQuery', sortBy)
    /\ UNCHANGED <<storeVars, ingestVars, uploadVars, gateVars, exVars, page, allTags, selectedPhoto, photos,
                   loading, error, userRole, sortBy, load, delOps, alert, deletedOk, apiVars, appVars, cardVars>>

\* Tag names on screen, and queries typed, while browsing
BrowseTags == {<<"B">>, <<"b">>, <<"c", "a">>}
BrowseQueries == {EmptyStr, <<"B">>, <<"c", "a">>}

-----------------------------------------------------------------------------
(* Other sessions acting on the store while the page is open (design        *)
(* document sections 4.2 and 4.4)                                           *)

\* The Tag table that holds one row for each of the names
TagTable(names) == [n \in names |-> 1]

\* Variant: pre-check-then-insert.  A row is inserted for every name the
\* transaction did not see when it started, whatever was committed since
TagRowsAfterUpsert_PreCheck(rows, names, seen) ==
    [n \in DOMAIN rows \cup names |->
        (IF n \in DOMAIN rows THEN rows[n] ELSE 0) + (IF n \in names \ seen THEN 1 ELSE 0)]

\* The Tag table after the upsert of names by a transaction that started when
\* the table held the names seen: unique constraint on the canonical name,
\* insert and retry on conflict.  A name without a row gets one; an insert
\* that meets a row, committed before or after the transaction started, is
\* retried as a match of that row
TagRowsAfterUpsert(rows, names, seen) ==
    [n \in DOMAIN rows \cup names |-> IF n \in DOMAIN rows THEN rows[n] ELSE 1]

\* A completed ingest of the next photo by its owner
StoreUpload ==
    /\ nextId <= MaxPhotoId
    /\ dbPhotos' = With(dbPhotos, nextId, InitialRow(nextId))
    /\ uploads' = uploads \cup {nextId}
    /\ nextId' = nextId + 1
    /\ tagRows' = TagRowsAfterUpsert(tagRows, TagNamesOf(InitialRow(nextId)), DOMAIN tagRows)

\* PUT /api/photos/{id} by its owner: the is_public flag is flipped
StoreUpdate(id) ==
    /\ id \in DOMAIN dbPhotos
    /\ dbPhotos' = [dbPhotos EXCEPT ![id].is_public = ~dbPhotos[id].is_public]
    /\ UNCHANGED <<uploads, nextId, tagRows>>

\* DELETE /api/photos/{id} by a permitted requester: row and file go
StoreDelete(u, id) ==
    /\ DeleteOutcome(dbPhotos, u, id) = "ok"
    /\ dbPhotos' = Without(dbPhotos, id)
    /\ uploads' = uploads \ {id}
    /\ UNCHANGED <<nextId, tagRows>>

\* The same three, by users other than the one the page belongs to and on
\* photos that are not this user's
OtherUserUpload ==
    /\ nextId <= MaxPhotoId
    /\ OwnerOf(nextId) # principal
    /\ StoreUpload
    /\ UNCHANGED <<ingestVars, uploadVars, gateVars, pageVars, exVars, apiVars, appVars, cardVars>>

OtherUserUpdate(id) ==
    /\ OwnerOf(id) # principal
    /\ StoreUpdate(id)
    /\ UNCHANGED <<ingestVars, uploadVars, gateVars, pageVars, exVars, apiVars, appVars, cardVars>>

OtherUserDelete(u, id) ==
    /\ u # principal
    /\ OwnerOf(id) # principal
    /\ StoreDelete(u, id)
    /\ UNCHANGED <<ingestVars, uploadVars, gateVars, pageVars, exVars, apiVars, appVars, cardVars>>

-----------------------------------------------------------------------------
(* Spec: a mounted Dashboard or Gallery of a signed-in user, and the store  *)

InitialIds == {1, 2}

StoreInit ==
    /\ dbPhotos = [i \in InitialIds |-> InitialRow(i)]
    /\ uploads = InitialIds
    /\ nextId = 3
    /\ tagRows = TagTable(UNION {TagNamesOf(InitialRow(i)) : i \in InitialIds})

\* No ingest is running
IngestIdle ==
    /\ modelsLoaded = TRUE
    /\ jobs = <<>>
    /\ returned = {}
    /\ deletedIds = {}
    /\ lastDelete = NoDelete

\* Upload as it mounts
UploadInit ==
    /\ inputFile = Null
    /\ selectedFile = Null
    /\ preview = Null
    /\ uploadTitle = EmptyStr
    /\ uploadDescription = EmptyStr
    /\ uploading = FALSE
    /\ uploadedPhoto = Null
    /\ uploadError = NoError
    /\ readers = {}
    /\ uploadCall = NoUploadCall

PageInit ==
    /\ photos = <<>>
    /\ loading = TRUE
    /\ error = NoError
    /\ userRole = "null"
    /\ searchQuery = EmptyStr
    /\ selectedTags = <<>>
    /\ sortBy = "recent"
    /\ filteredPhotos = <<>>
    /\ allTags = <<>>
    /\ selectedPhoto = 0
    /\ load = LoadStart
    /\ delOps = [k \in 1..MaxDeleteOps |-> IdleOp]
    /\ alert = NoAlert
    /\ deletedOk = {}

ExploreInit ==
    /\ exPhotos = <<>>
    /\ exLoading = TRUE
    /\ exError = NoError
    /\ exSelected = 0
    /\ exLoad = "idle"
    /\ exQuery = EmptyStr

\* The axios instance of services/api.js right after axios.create
NoToken == ""
NoHeader == [scheme |-> "none", token |-> NoToken]
IdleRequest == [pc |-> "idle", method |-> "none", token |-> NoToken, header |-> NoHeader,
                wire |-> NoHeader]
MaxCalls == 2

ApiInit ==
    /\ authHeader = NoHeader
    /\ requests = [k \in 1..MaxCalls |-> IdleRequest]

\* App before its role effect has run
NoRole == "null"
NotRun == <<>>

AppInit ==
    /\ appRole = NoRole
    /\ roleLoaded = FALSE
    /\ roleFetch = {}
    /\ effectSeen = NotRun

\* The PhotoCards as mounted, one per photo id
CardInit ==
    /\ showDeleteConfirm = [i \in PhotoIds |-> FALSE]
    /\ isDeleting = [i \in PhotoIds |-> FALSE]
    /\ cardCall = [i \in PhotoIds |-> 0]

Init ==
    /\ StoreInit
    /\ isLoaded = TRUE
    /\ principal \in {"alice", "root"}
    /\ page \in {"Dashboard", "Gallery"}
    /\ location = IF page = "Dashboard" THEN "/dashboard" ELSE "/gallery"
    /\ mutations = {}
    /\ PageInit
    /\ ExploreInit
    /\ UploadInit
    /\ ApiInit
    /\ AppInit
    /\ CardInit
    /\ IngestIdle

Next ==
    \/ LoadGotToken
    \/ LoadGotUser
    \/ LoadGotPhotos
    \/ \E id \in PhotoIds, c \in BOOLEAN : ClickDelete(id, c)
    \/ \E k \in 1..MaxDeleteOps : DeleteSend(k)
    \/ \E k \in 1..MaxDeleteOps : ServerDelete(k)
    \/ \E k \in 1..MaxDeleteOps : DeleteResume(k)
    \/ DismissAlert
    \/ \E q \in Queries : SetSearchQuery(q)
    \/ OtherUserUpload
    \/ \E id \in PhotoIds : OtherUserUpdate(id)
    \/ \E u \in Users, id \in PhotoIds : OtherUserDelete(u, id)

Spec == Init /\ [][Next]_vars

\* SpecBrowse: Dashboard or Gallery over a store that holds every photo, with
\* the filter and sort controls and no delete
BrowseInit ==
    /\ dbPhotos = [i \in PhotoIds |-> InitialRow(i)]
    /\ uploads = PhotoIds
    /\ nextId = MaxPhotoId + 1
    /\ tagRows = TagTable(UNION {TagNamesOf(InitialRow(i)) : i \in PhotoIds})
    /\ isLoaded = TRUE
    /\ principal \in Users
    /\ page \in {"Dashboard", "Gallery"}
    /\ location = IF page = "Dashboard" THEN "/dashboard" ELSE "/gallery"
    /\ mutations = {}
    /\ PageInit
    /\ ExploreInit
    /\ UploadInit
    /\ ApiInit
    /\ AppInit
    /\ CardInit
    /\ IngestIdle

BrowseNext ==
    \/ LoadGotToken
    \/ LoadGotUser
    \/ LoadGotPhotos
    \/ \E q \in BrowseQueries : SetSearchQuery(q)
    \/ \E tag \in BrowseTags : toggleTag(tag)
    \/ \E key \in SortKeys : SetSortBy(key)
    \/ \E alsoQuery \in BOOLEAN : ClearFilters(alsoQuery)

SpecBrowse == BrowseInit /\ [][BrowseNext]_vars

\* SpecModal: the page with its photo modal; every way to start a delete
ModalNext ==
    \/ LoadGotToken
    \/ LoadGotUser
    \/ LoadGotPhotos
    \/ \E id \in PhotoIds : OpenModal(id)
    \/ CloseModal
    \/ \E d \in {"prev", "next"} : Navigate(d)
    \/ \E c \in BOOLEAN : ModalDelete(c)
    \/ \E id \in PhotoIds, c \in BOOLEAN : CardDelete(id, c)
    \/ \E k \in 1..MaxDeleteOps : DeleteSend(k)
    \/ \E k \in 1..MaxDeleteOps : ServerDelete(k)
    \/ \E k \in 1..MaxDeleteOps : DeleteResume(k)
    \/ DismissAlert

SpecModal == BrowseInit /\ [][ModalNext]_vars

\* SpecTags: the page with its tag filter and its deletes
TagsNext ==
    \/ LoadGotToken
    \/ LoadGotUser
    \/ LoadGotPhotos
    \/ \E tag \in BrowseTags : toggleTag(tag)
    \/ \E id \in PhotoIds, c \in BOOLEAN : ClickDelete(id, c)
    \/ \E k \in 1..MaxDeleteOps : DeleteSend(k)
    \/ \E k \in 1..MaxDeleteOps : ServerDelete(k)
    \/ \E k \in 1..MaxDeleteOps : DeleteResume(k)
    \/ DismissAlert

SpecTags == BrowseInit /\ [][TagsNext]_vars

-----------------------------------------------------------------------------
(* PhotoCard.jsx (mounted by PhotoGrid, one per photo; onDelete is the      *)
(* page's handleDeletePhoto)                                                *)

\* handleDelete after await onDelete(photo.id): the catch block resets both
\* flags, a resolved call leaves them as they are
CardAfterDelete(outcome, deleting, confirm) ==
    IF outcome = "rejected"
    THEN [isDeleting |-> FALSE, showDeleteConfirm |-> FALSE]
    ELSE [isDeleting |-> deleting, showDeleteConfirm |-> confirm]

\* handleDeletePhoto catches its own errors and returns undefined on a
\* declined confirmation: the promise the card awaits never rejects
OnDeleteOutcome(resp) == "resolved"

\* A card lives while its photo is in the list (key={photo.id}); a card
\* mounted anew starts from useState(false)
MountedOnly(flags, ids) == [i \in PhotoIds |-> IF i \in ids THEN flags[i] ELSE FALSE]

CardIdle(id) == ~isDeleting[id] /\ ~showDeleteConfirm[id]

\* The trash button: setShowDeleteConfirm(true)
CardAskDelete(id) ==
    /\ alert = NoAlert
    /\ id \in Ids(Displayed)
    /\ ~showDeleteConfirm[id]
    /\ showDeleteConfirm' = [showDeleteConfirm EXCEPT ![id] = TRUE]
    /\ UNCHANGED <<storeVars, ingestVars, uploadVars, gateVars, exVars, pageVars, apiVars,
                   appVars, isDeleting, cardCall>>

\* Cancel (disabled={isDeleting}): setShowDeleteConfirm(false)
CardCancel(id) ==
    /\ alert = NoAlert
    /\ id \in Ids(Displayed)
    /\ showDeleteConfirm[id] /\ ~isDeleting[id]
    /\ showDeleteConfirm' = [showDeleteConfirm EXCEPT ![id] = FALSE]
    /\ UNCHANGED <<storeVars, ingestVars, uploadVars, gateVars, exVars, pageVars, apiVars,
                   appVars, isDeleting, cardCall>>

\* Confirm (disabled={isDeleting}): handleDelete runs setIsDeleting(true) and
\* onDelete(photo.id); a declined window.confirm ends the awaited call at once
CardConfirm(id, confirmed) ==
    /\ showDeleteConfirm[id] /\ ~isDeleting[id]
    /\ HandleDeleteStart(id, confirmed)
    /\ LET after == IF confirmed THEN [isDeleting |-> TRUE, showDeleteConfirm |-> TRUE]
                     ELSE CardAfterDelete(OnDeleteOutcome("declined"), TRUE, TRUE)
       IN  /\ isDeleting' = [isDeleting EXCEPT ![id] = after.isDeleting]
           /\ showDeleteConfirm' = [showDeleteConfirm EXCEPT ![id] = after.showDeleteConfirm]
    /\ cardCall' = [cardCall EXCEPT ![id] = IF confirmed THEN FirstFreeSlot ELSE 0]

\* handleDeletePhoto settles and the handleDelete that awaits it resumes;
\* the cards of the photos no longer listed are unmounted
CardDeleteResume(k) ==
    /\ HandleDeleteEnd(k)
    /\ LET outcome == OnDeleteOutcome(delOps[k].resp)
           after(i) == IF cardCall[i] = k
                       THEN CardAfterDelete(outcome, isDeleting[i], showDeleteConfirm[i])
                       ELSE [isDeleting |-> isDeleting[i],
                             showDeleteConfirm |-> showDeleteConfirm[i]]
       IN  /\ isDeleting' = MountedOnly([i \in PhotoIds |-> after(i).isDeleting],
                                        Ids(photos'))
           /\ showDeleteConfirm' =
                  MountedOnly([i \in PhotoIds |-> after(i).showDeleteConfirm], Ids(photos'))
    /\ cardCall' = [i \in PhotoIds |-> IF cardCall[i] = k THEN 0 ELSE cardCall[i]]

CardNext ==
    \/ LoadGotToken
    \/ LoadGotUser
    \/ LoadGotPhotos
    \/ \E id \in PhotoIds : CardAskDelete(id)
    \/ \E id \in PhotoIds : CardCancel(id)
    \/ \E id \in PhotoIds, c \in BOOLEAN : CardConfirm(id, c)
    \/ \E k \in 1..MaxDeleteOps : DeleteSend(k)
    \/ \E k \in 1..MaxDeleteOps : ServerDelete(k)
    \/ \E k \in 1..MaxDeleteOps : CardDeleteResume(k)
    \/ DismissAlert

\* SpecCard: a page whose photos are shown as PhotoCards
SpecCard == BrowseInit /\ [][CardNext]_vars

\* The same, with every request and every continuation settling, and every
\* enabled control of a card used at some time
SpecCardLive ==
    /\ SpecCard
    /\ WF_vars(LoadGotToken) /\ WF_vars(LoadGotUser) /\ WF_vars(LoadGotPhotos)
    /\ \A k \in 1..MaxDeleteOps :
          WF_vars(DeleteSend(k)) /\ WF_vars(ServerDelete(k)) /\ WF_vars(CardDeleteResume(k))
    /\ WF_vars(DismissAlert)
    /\ \A id \in PhotoIds : WF_vars(CardCancel(id))

-----------------------------------------------------------------------------
(* App (routes), ProtectedRoute and Explore.jsx                             *)

ProtectedPaths == {"/dashboard", "/upload", "/gallery"}
Paths == {"/", "/sign-in", "/sign-up", "/explore", "/nowhere"} \cup ProtectedPaths

Page(name)   == [kind |-> "page", name |-> name]
Redirect(to) == [kind |-> "redirect", name |-> to]
Spinner      == [kind |-> "spinner", name |-> "spinner"]

\* Variant: the guard that lets a signed-out visitor through
ProtectedRoute_NoSignInCheck(loaded, signedIn, outlet) ==
    IF ~loaded THEN Spinner ELSE outlet

\* ProtectedRoute: spinner until Clerk has loaded, <Navigate to="/sign-in">
\* when signed out, <Outlet/> otherwise
ProtectedRoute(loaded, signedIn, outlet) ==
    IF ~loaded THEN Spinner
    ELSE IF ~signedIn THEN Redirect("/sign-in")
    ELSE outlet

\* <Routes>: the element of the route that matches the path
RouteElement(path, loaded, signedIn) ==
    CASE path = "/"          -> IF signedIn THEN Redirect("/dashboard") ELSE Page("Home")
      [] path = "/sign-in"   -> Page("SignIn")
      [] path = "/sign-up"   -> Page("SignUp")
      [] path = "/dashboard" -> ProtectedRoute(loaded, signedIn, Page("Dashboard"))
      [] path = "/upload"    -> ProtectedRoute(loaded, signedIn, Page("Upload"))
      [] path = "/gallery"   -> ProtectedRoute(loaded, signedIn, Page("Gallery"))
      [] path = "/explore"   -> Page("Explore")
      [] OTHER               -> Redirect("/")

\* App: the spinner while Clerk loads, the routes afterwards
AppElement(path, loaded, signedIn) ==
    IF ~loaded THEN Spinner ELSE RouteElement(path, loaded, signedIn)

isSignedIn == principal # NoUser
Rendered == AppElement(location, isLoaded, isSignedIn)

\* PhotoModal: {!readOnly && onDelete && <button ...>Delete</button>}
ModalShowsDelete(readOnly, hasOnDelete) == ~readOnly /\ hasOnDelete

\* The props each page gives its PhotoModal
ModalReadOnly(name)    == name = "Explore"
ModalHasOnDelete(name) == name \in {"Dashboard", "Gallery"}

\* A control that starts a delete request is on screen: the cards of
\* Dashboard and Gallery, or the Delete button of an open photo modal
DeleteControlShown(el, modalOpen) ==
    /\ el.kind = "page"
    /\ \/ el.name \in {"Dashboard", "Gallery"}
       \/ modalOpen /\ ModalShowsDelete(ModalReadOnly(el.name), ModalHasOnDelete(el.name))

\* The upload form is on screen
UploadControlShown(el) == el.kind = "page" /\ el.name = "Upload"

\* The name a stored file has in uploads/
FileName(id) ==
    CASE id = 1 -> <<"a", "B">>
      [] id = 2 -> <<"b">>
      [] OTHER  -> <<"c", "a">>

\* /uploads/list.json: one entry per file in the uploads folder
UploadList(files) ==
    LET order == MostRecentFirst(files)
    IN  [k \in 1..Len(order) |->
            [filename |-> FileName(order[k]), file |-> order[k],
             uploaded_at |-> UploadedAt(order[k])]]

\* loadPhotos: the entries normalized to the shape PhotoModal expects
NormalizeUploads(data) ==
    [k \in 1..Len(data) |->
        [id |-> data[k].file, file_path |-> data[k].file,
         title |-> Some(data[k].filename), tags |-> <<>>,
         uploaded_at |-> data[k].uploaded_at]]

\* Explore right after mounting: loadPhotos has issued its fetch
ExploreMounted ==
    /\ exPhotos' = <<>>
    /\ exLoading' = TRUE
    /\ exError' = NoError
    /\ exSelected' = 0
    /\ exLoad' = "fetching"
    /\ exQuery' = EmptyStr

ExploreUnmounted ==
    /\ exPhotos' = <<>>
    /\ exLoading' = TRUE
    /\ exError' = NoError
    /\ exSelected' = 0
    /\ exLoad' = "idle"
    /\ exQuery' = EmptyStr

\* What a change of route or session does to Explore's state
ExploreAfter(before, after) ==
    IF after = Page("Explore")
    THEN IF before = Page("Explore") THEN UNCHANGED exVars ELSE ExploreMounted
    ELSE ExploreUnmounted

\* Clerk finishes loading, with or without a session
ClerkLoaded(u) ==
    /\ ~isLoaded
    /\ isLoaded' = TRUE
    /\ principal' = u
    /\ ExploreAfter(Rendered, AppElement(location, TRUE, u # NoUser))
    /\ UNCHANGED <<storeVars, ingestVars, uploadVars, pageVars, location, mutations, apiVars, appVars, cardVars>>

\* A link is followed or an address is entered
Visit(path) ==
    /\ path # location
    /\ location' = path
    /\ ExploreAfter(Rendered, AppElement(path, isLoaded, isSignedIn))
    /\ UNCHANGED <<storeVars, ingestVars, uploadVars, pageVars, isLoaded, principal, mutations, apiVars, appVars, cardVars>>

\* <Navigate to=... replace/> takes effect
FollowRedirect ==
    /\ Rendered.kind = "redirect"
    /\ location' = Rendered.name
    /\ ExploreAfter(Rendered, AppElement(Rendered.name, isLoaded, isSignedIn))
    /\ UNCHANGED <<storeVars, ingestVars, uploadVars, pageVars, isLoaded, principal, mutations, apiVars, appVars, cardVars>>

GateUsers == {"alice", "root"}

\* Clerk signs a user in
SignIn(u) ==
    /\ isLoaded
    /\ ~isSignedIn
    /\ principal' = u
    /\ ExploreAfter(Rendered, AppElement(location, isLoaded, TRUE))
    /\ UNCHANGED <<storeVars, ingestVars, uploadVars, pageVars, isLoaded, location, mutations, apiVars, appVars, cardVars>>

\* The session ends: the UserButton (afterSignOutUrl="/") or elsewhere
SignOut(toHome) ==
    /\ isLoaded
    /\ isSignedIn
    /\ principal' = NoUser
    /\ location' = IF toHome THEN "/" ELSE location
    /\ ExploreAfter(Rendered, AppElement(location', isLoaded, FALSE))
    /\ UNCHANGED <<storeVars, ingestVars, uploadVars, pageVars, isLoaded, mutations, apiVars, appVars, cardVars>>

\* A delete request is started from a control on screen
StartDelete ==
    /\ DeleteControlShown(Rendered, exSelected # 0)
    /\ mutations' = mutations \cup {[kind |-> "delete", by |-> principal]}
    /\ UNCHANGED <<storeVars, ingestVars, uploadVars, pageVars, exVars, isLoaded, principal, location, apiVars, appVars, cardVars>>

\* An upload request is started from the upload form
StartUpload ==
    /\ UploadControlShown(Rendered)
    /\ mutations' = mutations \cup {[kind |-> "upload", by |-> principal]}
    /\ UNCHANGED <<storeVars, ingestVars, uploadVars, pageVars, exVars, isLoaded, principal, location, apiVars, appVars, cardVars>>

\* loadPhotos: fetch('/uploads/list.json') settles
ExploreLoaded ==
    /\ exLoad = "fetching"
    /\ \E netOk \in BOOLEAN :
          IF netOk
          THEN /\ exPhotos' = NormalizeUploads(UploadList(uploads))
               /\ UNCHANGED exError
          ELSE /\ exError' = "Failed to load uploads"
               /\ UNCHANGED exPhotos
    /\ exLoading' = FALSE
    /\ exLoad' = "done"
    /\ UNCHANGED <<storeVars, ingestVars, uploadVars, gateVars, pageVars, exSelected, exQuery, apiVars, appVars, cardVars>>

\* A card of the grid is clicked: setSelectedPhoto(photo)
ExploreSelect(id) ==
    /\ Rendered = Page("Explore")
    /\ ~exLoading
    /\ id \in Ids(exPhotos)
    /\ exSelected # id
    /\ exSelected' = id
    /\ UNCHANGED <<storeVars, ingestVars, uploadVars, gateVars, pageVars, exPhotos, exLoading, exError, exLoad, exQuery, apiVars, appVars, cardVars>>

\* onClose={() => setSelectedPhoto(null)}
ExploreCloseModal ==
    /\ exSelected # 0
    /\ exSelected' = 0
    /\ UNCHANGED <<storeVars, ingestVars, uploadVars, gateVars, pageVars, exPhotos, exLoading, exError, exLoad, exQuery, apiVars, appVars, cardVars>>

\* The store changes under the app
GateStoreUpload ==
    /\ StoreUpload
    /\ UNCHANGED <<ingestVars, uploadVars, gateVars, pageVars, exVars, apiVars, appVars, cardVars>>

GateStoreUpdate(id) ==
    /\ StoreUpdate(id)
    /\ UNCHANGED <<ingestVars, uploadVars, gateVars, pageVars, exVars, apiVars, appVars, cardVars>>

GateStoreDelete(id) ==
    /\ StoreDelete(OwnerOf(id), id)
    /\ UNCHANGED <<ingestVars, uploadVars, gateVars, pageVars, exVars, apiVars, appVars, cardVars>>

\* SpecGate: the app from its first render, no page of Dashboard or Gallery
\* state involved
GateInit ==
    /\ StoreInit
    /\ isLoaded = FALSE
    /\ principal = NoUser
    /\ location \in Paths
    /\ mutations = {}
    /\ page = "Dashboard"
    /\ PageInit
    /\ ExploreInit
    /\ UploadInit
    /\ ApiInit
    /\ AppInit
    /\ CardInit
    /\ IngestIdle

GateNext ==
    \/ \E u \in GateUsers \cup {NoUser} : ClerkLoaded(u)
    \/ \E path \in Paths : Visit(path)
    \/ FollowRedirect
    \/ \E u \in GateUsers : SignIn(u)
    \/ \E toHome \in BOOLEAN : SignOut(toHome)
    \/ StartDelete
    \/ StartUpload
    \/ ExploreLoaded
    \/ \E id \in PhotoIds : ExploreSelect(id)
    \/ ExploreCloseModal
    \/ GateStoreUpload
    \/ \E id \in PhotoIds : GateStoreUpdate(id)
    \/ \E id \in PhotoIds : GateStoreDelete(id)

SpecGate == GateInit /\ [][GateNext]_vars

-----------------------------------------------------------------------------
(* Explore.jsx: the search box, filteredPhotos and the grid                 *)

RECURSIVE TrimStart(_)
TrimStart(s) == IF s # <<>> /\ Head(s) = " " THEN TrimStart(Tail(s)) ELSE s

RECURSIVE TrimEnd(_)
TrimEnd(s) ==
    IF s # <<>> /\ s[Len(s)] = " " THEN TrimEnd(SubSeq(s, 1, Len(s) - 1)) ELSE s

\* String.prototype.trim
trim(s) == TrimEnd(TrimStart(s))

\* const filteredPhotos = useMemo(...): the photos whose title contains the
\* trimmed query, ignoring case; every photo for an empty query
ExploreFiltered(list, query) ==
    IF query = EmptyStr THEN list
    ELSE LET q == toLowerCase(trim(query))
             keep == {p \in Range(list) :
                        includes(toLowerCase(IF IsNull(p.title) THEN EmptyStr
                                             ELSE Val(p.title)), q)}
         IN  SelectSeqBy(list, keep)

\* What is on screen under the search box: the empty state for no match,
\* otherwise a grid that maps photos
ExploreGrid(list, query) ==
    IF Len(ExploreFiltered(list, query)) = 0 THEN <<>> ELSE list

ExploreEmptyState(list, query) == Len(ExploreFiltered(list, query)) = 0

ExploreQueries == {EmptyStr, <<"B">>, <<" ", "c">>, <<"z">>}

\* The search input's onChange: setSearchQuery(e.target.value); the URL's
\* ?q= is replaced, the path stays
ExploreSearch(q) ==
    /\ Rendered = Page("Explore")
    /\ ~exLoading
    /\ q # exQuery
    /\ exQuery' = q
    /\ UNCHANGED <<storeVars, ingestVars, uploadVars, gateVars, pageVars, exPhotos, exLoading,
                   exError, exSelected, exLoad, apiVars, appVars, cardVars>>

ExploreNext ==
    \/ \E u \in GateUsers \cup {NoUser} : ClerkLoaded(u)
    \/ \E path \in Paths : Visit(path)
    \/ FollowRedirect
    \/ ExploreLoaded
    \/ \E q \in ExploreQueries : ExploreSearch(q)
    \/ \E id \in PhotoIds : ExploreSelect(id)
    \/ ExploreCloseModal
    \/ GateStoreUpload
    \/ \E id \in PhotoIds : GateStoreDelete(id)

\* SpecExplore: Explore with its search box, over a changing uploads folder
SpecExplore == GateInit /\ [][ExploreNext]_vars

\* C25: while Explore shows its list, the grid holds exactly the photos whose
\* title contains the trimmed query ignoring case, and the empty state is
\* shown exactly when there is no such photo
ExploreGridShowsMatches ==
    (Rendered = Page("Explore") /\ ~exLoading) =>
        /\ ExploreGrid(exPhotos, exQuery) = ExploreFiltered(exPhotos, exQuery)
        /\ ExploreEmptyState(exPhotos, exQuery)
              <=> (\A p \in Range(exPhotos) :
                     ~includes(toLowerCase(Val(p.title)), toLowerCase(trim(exQuery))))

\* The empty-state half of the same statement
ExploreEmptyStateWhenNoMatch ==
    (Rendered = Page("Explore") /\ ~exLoading) =>
        (ExploreEmptyState(exPhotos, exQuery)
              <=> (\A p \in Range(exPhotos) :
                     ~includes(toLowerCase(Val(p.title)), toLowerCase(trim(exQuery)))))

-----------------------------------------------------------------------------
(* Upload (pages/Upload.jsx) and photoAPI.uploadPhoto                       *)

\* Files the user can pick: [name, type, size]; a MIME type is <<type, subtype>>
MiB == 1024 * 1024
UserFiles ==
    { [name |-> "a.jpg", type |-> <<"image", "jpeg">>, size |-> 2 * MiB],
      [name |-> "b.png", type |-> <<"image", "png">>,  size |-> 10 * MiB],
      [name |-> "c.gif", type |-> <<"image", "gif">>,  size |-> 10 * MiB + 1],
      [name |-> "d.txt", type |-> <<"text", "plain">>, size |-> 1024],
      [name |-> "e.mov", type |-> <<"video", "mp4">>,  size |-> 15 * MiB] }

\* file.type.startsWith('image/')
IsImageType(type) == type[1] = "image"

\* JavaScript truthiness of an optional string
Truthy(field) == ~IsNull(field) /\ Val(field) # EmptyStr

\* The form is on screen when there is no uploadedPhoto; Upload is mounted
\* on /upload
UploadMounted == location = "/upload"
UploadFormShown == UploadMounted /\ IsNull(uploadedPhoto)

\* Variant: the size is checked before the type
FileSelectError_SizeFirst(file) ==
    IF file.size > 10 * MiB THEN "File size must be less than 10MB"
    ELSE IF ~IsImageType(file.type) THEN "Please select an image file"
    ELSE NoError

\* handleFileSelect: the two checks in their order; NoError for a file that
\* passes both
FileSelectError(file) ==
    IF ~IsImageType(file.type) THEN "Please select an image file"
    ELSE IF file.size > 10 * MiB THEN "File size must be less than 10MB"
    ELSE NoError

\* Variant: setSelectedFile runs before the checks
SelectedAfterPick_BeforeChecks(selected, file) == Some(file.name)

\* handleFileSelect: setSelectedFile(file) is reached only past both returns
SelectedAfterPick(selected, file) ==
    IF FileSelectError(file) = NoError THEN Some(file.name) ELSE selected

\* handleFileSelect, the change event of the file input: picked is
\* e.target.files?.[0], absent when the dialog was cancelled.  A file that
\* passes the checks is taken and a FileReader is started for its preview.
handleFileSelect(picked) ==
    /\ UploadFormShown
    /\ ~uploading
    /\ picked # inputFile
    /\ inputFile' = picked
    /\ IF IsNull(picked)
       THEN UNCHANGED <<uploadError, selectedFile, readers>>
       ELSE /\ uploadError' = FileSelectError(Val(picked))
            /\ selectedFile' = SelectedAfterPick(selectedFile, Val(picked))
            /\ readers' = IF FileSelectError(Val(picked)) = NoError
                          THEN readers \cup {Val(picked).name}
                          ELSE readers
    /\ UNCHANGED <<storeVars, ingestVars, gateVars, pageVars, exVars, preview,
                   uploadTitle, uploadDescription, uploading, uploadedPhoto, uploadCall, apiVars, appVars, cardVars>>

\* reader.onloadend
ReaderLoadEnd(name) ==
    /\ UploadMounted
    /\ name \in readers
    /\ readers' = readers \ {name}
    /\ preview' = Some(name)
    /\ UNCHANGED <<storeVars, ingestVars, gateVars, pageVars, exVars, inputFile, selectedFile,
                   uploadTitle, uploadDescription, uploading, uploadedPhoto, uploadError,
                   uploadCall, apiVars, appVars, cardVars>>

UploadTexts == {EmptyStr, <<"A", "b">>}

\* onChange of the title input
SetTitle(t) ==
    /\ UploadFormShown
    /\ ~uploading
    /\ t # uploadTitle
    /\ uploadTitle' = t
    /\ UNCHANGED <<storeVars, ingestVars, gateVars, pageVars, exVars, inputFile, selectedFile,
                   preview, uploadDescription, uploading, uploadedPhoto, uploadError,
                   readers, uploadCall, apiVars, appVars, cardVars>>

\* onChange of the description textarea
SetDescription(d) ==
    /\ UploadFormShown
    /\ ~uploading
    /\ d # uploadDescription
    /\ uploadDescription' = d
    /\ UNCHANGED <<storeVars, ingestVars, gateVars, pageVars, exVars, inputFile, selectedFile,
                   preview, uploadTitle, uploading, uploadedPhoto, uploadError,
                   readers, uploadCall, apiVars, appVars, cardVars>>

\* disabled={!selectedFile || uploading || !title} of the submit button
SubmitDisabled == IsNull(selectedFile) \/ uploading \/ uploadTitle = EmptyStr

\* handleUpload up to its first await (getToken).  The submit event reaches
\* the handler also where the button is disabled for want of a file or a
\* title: the handler makes these two checks itself.  While uploading there
\* is no second submit.
handleUpload ==
    /\ UploadFormShown
    /\ ~uploading
    /\ IF IsNull(selectedFile)
       THEN /\ uploadError' = "Please select a file"
            /\ UNCHANGED <<uploading, uploadCall>>
       ELSE IF uploadTitle = EmptyStr
       THEN /\ uploadError' = "Please enter a title"
            /\ UNCHANGED <<uploading, uploadCall>>
       ELSE /\ uploading' = TRUE
            /\ uploadError' = NoError
            /\ uploadCall' = [NoUploadCall EXCEPT !.pc = "token"]
    /\ UNCHANGED <<storeVars, ingestVars, gateVars, pageVars, exVars, inputFile, selectedFile,
                   preview, uploadTitle, uploadDescription, uploadedPhoto, readers, apiVars, appVars, cardVars>>

\* if (title) metadata.title = title; if (description) metadata.description = ...
UploadMetadata(t, d) ==
    [title |-> IF t # EmptyStr THEN Some(t) ELSE Null,
     description |-> IF d # EmptyStr THEN Some(d) ELSE Null]

\* getToken has resolved: the metadata is built from the state of the render
\* that submitted and photoAPI.uploadPhoto posts the form
UploadGotToken ==
    /\ UploadMounted
    /\ uploadCall.pc = "token"
    /\ uploadCall' = [uploadCall EXCEPT
                         !.pc = "posted",
                         !.file = selectedFile,
                         !.metadata = Some(UploadMetadata(uploadTitle, uploadDescription))]
    /\ UNCHANGED <<storeVars, ingestVars, gateVars, pageVars, exVars, inputFile, selectedFile,
                   preview, uploadTitle, uploadDescription, uploading, uploadedPhoto,
                   uploadError, readers, apiVars, appVars, cardVars>>

\* What POST /api/photos/upload can answer: the photo object, with or without
\* a caption and tags, or an error with or without a detail
UploadCaptions == {Null, Some(EmptyStr), Some(<<"b", "a">>)}
UploadTagLists == {Null, Some(<<>>), Some(<<TagObj(<<"c", "a">>, 92), TagPlain(<<"B">>)>>)}
UploadResponses ==
    { [ok |-> TRUE, detail |-> Null,
       data |-> [title |-> t, caption |-> c, tags |-> g]] :
          t \in {Some(<<"A", "b">>)}, c \in UploadCaptions, g \in UploadTagLists }
    \cup
    { [ok |-> FALSE, detail |-> d, data |-> Null] :
          d \in {Null, Some("File too large")} }

\* The Photo row behind a photo object of an answer
RowOfUpload(data) ==
    [is_public |-> FALSE, state |-> "tagged", caption |-> data.caption,
     tags |-> IF IsNull(data.tags) THEN <<>> ELSE Val(data.tags)]

\* The request settles: the service has ingested the file (row and file
\* exist from then on) and answers with the photo, or it answers with an error
UploadSettled(resp) ==
    /\ uploadCall.pc = "posted"
    /\ resp.ok => resp.data.title = Val(uploadCall.metadata).title
    /\ uploadCall' = [uploadCall EXCEPT !.pc = "settled", !.response = Some(resp)]
    /\ IF resp.ok
       THEN /\ nextId <= MaxPhotoId
            /\ dbPhotos' = With(dbPhotos, nextId, RowOfUpload(resp.data))
            /\ uploads' = uploads \cup {nextId}
            /\ nextId' = nextId + 1
            /\ tagRows' = TagRowsAfterUpsert(tagRows, TagNamesOf(RowOfUpload(resp.data)),
                                              DOMAIN tagRows)
       ELSE UNCHANGED storeVars
    /\ UNCHANGED <<ingestVars, gateVars, pageVars, exVars, inputFile, selectedFile,
                   preview, uploadTitle, uploadDescription, uploading, uploadedPhoto,
                   uploadError, readers, apiVars, appVars, cardVars>>

\* Variant: an answer without caption and tags is taken for a failed upload
UploadOutcome_EmptyIsFailure(resp) ==
    IF resp.ok /\ (Truthy(resp.data.caption)
                   \/ (~IsNull(resp.data.tags) /\ Len(Val(resp.data.tags)) > 0))
    THEN [uploadedPhoto |-> Some(resp.data), error |-> NoError, resetForm |-> TRUE]
    ELSE [uploadedPhoto |-> Null, error |-> "Failed to upload photo", resetForm |-> FALSE]

\* Variant: the catch block clears the form as the success path does
UploadOutcome_ClearsFormOnFailure(resp) ==
    IF resp.ok
    THEN [uploadedPhoto |-> Some(resp.data), error |-> NoError, resetForm |-> TRUE]
    ELSE [uploadedPhoto |-> Null,
          error |-> IF IsNull(resp.detail) THEN "Failed to upload photo" ELSE Val(resp.detail),
          resetForm |-> TRUE]

\* handleUpload after the request: setUploadedPhoto(result) and the form
\* reset, or the catch block's setError(err.response?.data?.detail || ...)
UploadOutcome(resp) ==
    IF resp.ok
    THEN [uploadedPhoto |-> Some(resp.data), error |-> NoError, resetForm |-> TRUE]
    ELSE [uploadedPhoto |-> Null,
          error |-> IF IsNull(resp.detail) THEN "Failed to upload photo" ELSE Val(resp.detail),
          resetForm |-> FALSE]

\* handleUpload resumes after await photoAPI.uploadPhoto(...), finally included
UploadResume ==
    /\ UploadMounted
    /\ uploadCall.pc = "settled"
    /\ LET out == UploadOutcome(Val(uploadCall.response)) IN
          /\ uploadedPhoto' = out.uploadedPhoto
          /\ uploadError' = out.error
          /\ IF out.resetForm
             THEN /\ selectedFile' = Null
                  /\ preview' = Null
                  /\ uploadTitle' = EmptyStr
                  /\ uploadDescription' = EmptyStr
                  /\ inputFile' = Null     \* the form, input included, unmounts
             ELSE UNCHANGED <<inputFile, selectedFile, preview, uploadTitle,
                              uploadDescription>>
    /\ uploading' = FALSE
    /\ uploadCall' = NoUploadCall
    /\ UNCHANGED <<storeVars, ingestVars, gateVars, pageVars, exVars, readers, apiVars, appVars, cardVars>>

\* handleReset: "Upload Another" of the success screen, or the form's Reset
\* button (selectedFile && !uploading)
handleReset ==
    /\ UploadMounted
    /\ \/ ~IsNull(uploadedPhoto)
       \/ ~IsNull(selectedFile) /\ ~uploading
    /\ selectedFile' = Null
    /\ preview' = Null
    /\ uploadTitle' = EmptyStr
    /\ uploadDescription' = EmptyStr
    /\ uploadedPhoto' = Null
    /\ uploadError' = NoError
    /\ UNCHANGED <<storeVars, ingestVars, gateVars, pageVars, exVars, inputFile, uploading, readers,
                   uploadCall, apiVars, appVars, cardVars>>

\* "View Gallery" (navigate('/gallery')) or a link of the navbar: Upload
\* unmounts, its state and the continuations of its calls go with it
LeaveUpload ==
    /\ UploadMounted
    /\ location' = "/gallery"
    /\ inputFile' = Null
    /\ selectedFile' = Null
    /\ preview' = Null
    /\ uploadTitle' = EmptyStr
    /\ uploadDescription' = EmptyStr
    /\ uploading' = FALSE
    /\ uploadedPhoto' = Null
    /\ uploadError' = NoError
    /\ readers' = {}
    /\ uploadCall' = NoUploadCall
    /\ UNCHANGED <<storeVars, ingestVars, pageVars, exVars, isLoaded, principal, mutations, apiVars, appVars, cardVars>>

\* The Upload link: the page mounts again
OpenUpload ==
    /\ ~UploadMounted
    /\ location' = "/upload"
    /\ UNCHANGED <<storeVars, ingestVars, pageVars, exVars, uploadVars, isLoaded,
                   principal, mutations, apiVars, appVars, cardVars>>

\* What Upload renders
SuccessScreenShown == UploadMounted /\ ~IsNull(uploadedPhoto)
\* {error && ...} is part of the form only
ErrorShown == UploadFormShown /\ uploadError # NoError
\* {uploadedPhoto.caption && ...}
CaptionSectionShown == SuccessScreenShown /\ Truthy(Val(uploadedPhoto).caption)
\* {uploadedPhoto.tags && uploadedPhoto.tags.length > 0 && ...}
TagSectionShown ==
    /\ SuccessScreenShown
    /\ ~IsNull(Val(uploadedPhoto).tags)
    /\ Len(Val(Val(uploadedPhoto).tags)) > 0

UploadPageInit ==
    /\ StoreInit
    /\ IngestIdle
    /\ isLoaded = TRUE
    /\ principal \in {"alice", "root"}
    /\ location = "/upload"
    /\ mutations = {}
    /\ page = "Dashboard"
    /\ PageInit
    /\ ExploreInit
    /\ UploadInit
    /\ ApiInit
    /\ AppInit
    /\ CardInit

UploadNext ==
    \/ \E picked \in {Null} \cup {Some(f) : f \in UserFiles} : handleFileSelect(picked)
    \/ \E name \in {f.name : f \in UserFiles} : ReaderLoadEnd(name)
    \/ \E t \in UploadTexts : SetTitle(t)
    \/ \E d \in UploadTexts : SetDescription(d)
    \/ handleUpload
    \/ UploadGotToken
    \/ \E resp \in UploadResponses : UploadSettled(resp)
    \/ UploadResume
    \/ handleReset
    \/ LeaveUpload
    \/ OpenUpload

SpecUpload == UploadPageInit /\ [][UploadNext]_vars

\* SpecBusy: one of the pages that load or upload is mounted (Dashboard or
\* Gallery, Explore, Upload), and every request it issues settles
ExploreOpenInit ==
    /\ StoreInit
    /\ IngestIdle
    /\ isLoaded = TRUE
    /\ principal \in {NoUser, "alice"}
    /\ location = "/explore"
    /\ mutations = {}
    /\ page = "Dashboard"
    /\ PageInit
    /\ exPhotos = <<>>
    /\ exLoading = TRUE
    /\ exError = NoError
    /\ exSelected = 0
    /\ exLoad = "fetching"
    /\ exQuery = EmptyStr
    /\ UploadInit
    /\ ApiInit
    /\ AppInit
    /\ CardInit

BusyInit == BrowseInit \/ ExploreOpenInit \/ UploadPageInit

\* The files picked in this specification: one accepted, one refused
BusyFiles == {f \in UserFiles : f.name \in {"a.jpg", "d.txt"}}

BusyNext ==
    \/ LoadGotToken
    \/ LoadGotUser
    \/ LoadGotPhotos
    \/ ExploreLoaded
    \/ \E picked \in {Null} \cup {Some(f) : f \in BusyFiles} : handleFileSelect(picked)
    \/ \E name \in {f.name : f \in BusyFiles} : ReaderLoadEnd(name)
    \/ \E t \in UploadTexts : SetTitle(t)
    \/ handleUpload
    \/ UploadGotToken
    \/ \E resp \in UploadResponses : UploadSettled(resp)
    \/ UploadResume
    \/ handleReset

SpecBusy ==
    /\ BusyInit /\ [][BusyNext]_vars
    /\ WF_vars(LoadGotToken) /\ WF_vars(LoadGotUser) /\ WF_vars(LoadGotPhotos)
    /\ WF_vars(ExploreLoaded)
    /\ WF_vars(UploadGotToken)
    /\ WF_vars(\E resp \in UploadResponses : UploadSettled(resp))
    /\ WF_vars(UploadResume)

-----------------------------------------------------------------------------
(* Properties of Upload, checked under SpecUpload                           *)

\* The answer the running handleUpload call is about to resume with
PendingAnswer == Val(uploadCall.response)

\* C10: whenever handleUpload resumes with a successful answer, whatever the
\* caption and tags in it, the page is in its success state afterwards:
\* uploadedPhoto is the photo of the answer and no error is shown; the caption
\* section is shown exactly when the caption is a non-empty string and the tag
\* section exactly when the tag list is present and non-empty.
SuccessfulUploadShownAsSuccess ==
    [][ (uploadCall.pc = "settled" /\ PendingAnswer.ok /\ uploadCall'.pc = "idle"
         /\ UploadMounted')
        => /\ uploadedPhoto' = Some(PendingAnswer.data)
           /\ SuccessScreenShown'
           /\ ~ErrorShown'
           /\ uploadError' = NoError
           /\ CaptionSectionShown'
                 <=> (PendingAnswer.data.caption \notin {Null, Some(EmptyStr)})
           /\ TagSectionShown'
                 <=> (PendingAnswer.data.tags \notin {Null, Some(<<>>)}) ]_vars

\* The success screen of an upload that came back without caption and tags
SuccessWithoutCaptionAndTags ==
    /\ SuccessScreenShown
    /\ Val(uploadedPhoto).caption = Null
    /\ Val(uploadedPhoto).tags \in {Null, Some(<<>>)}
    /\ ~CaptionSectionShown
    /\ ~TagSectionShown
    /\ ~ErrorShown

\* The rules of the upload validation, in their order
FileOf(name) == CHOOSE f \in UserFiles : f.name = name
FirstViolatedRule(file, t) ==
    IF file.type[1] # "image" THEN "content_type"
    ELSE IF file.size > 10 * 1024 * 1024 THEN "size"
    ELSE IF t = EmptyStr THEN "title"
    ELSE "none"
\* The rule an error message of the page reports
RuleOfMessage(msg) ==
    CASE msg = "Please select an image file"      -> "content_type"
      [] msg = "File size must be less than 10MB" -> "size"
      [] msg = "Please enter a title"             -> "title"
      [] msg = NoError                            -> "none"
      [] OTHER                                    -> "other"

RejectionHasNoSideEffects ==
    /\ [][ (inputFile' # inputFile /\ ~IsNull(inputFile')
            /\ FirstViolatedRule(Val(inputFile'), <<"A">>) # "none")
              => UNCHANGED <<storeVars, selectedFile, preview, uploadTitle,
                             uploadDescription, uploading, uploadedPhoto, readers,
                             uploadCall>> ]_vars
    /\ [][ (handleUpload /\ (IsNull(selectedFile) \/ uploadTitle = EmptyStr))
              => /\ uploadError' # NoError
                 /\ UNCHANGED <<storeVars, inputFile, selectedFile, preview, uploadTitle,
                                uploadDescription, uploading, uploadedPhoto, readers,
                                uploadCall>> ]_vars
    /\ [][ storeVars' # storeVars => uploadCall.pc = "posted" ]_vars
    /\ [](~IsNull(uploadCall.file)
             => FirstViolatedRule(FileOf(Val(uploadCall.file)), <<"A">>) = "none")

\* A 15 MB file was rejected after a file had been selected and a title
\* entered: the selection stands and nothing was sent or stored
RejectedFileLeftFormAlone ==
    /\ ~IsNull(inputFile)
    /\ Val(inputFile).size = 15 * 1024 * 1024
    /\ uploadError # NoError
    /\ selectedFile = Some("a.jpg")
    /\ uploadTitle # EmptyStr
    /\ uploadCall.pc = "idle"
    /\ DOMAIN dbPhotos = InitialIds

-----------------------------------------------------------------------------
(* Photo service: Model Adapter and Ingestion Pipeline.                     *)
(* Written from the design document (sections 3, 4.1, 4.2, 5 and 7): the    *)
(* service's code is not among the sources.                                 *)

\* ingest calls that may run at once
MaxJobs == 2
\* re-tags are requested for the photos of id up to MaxRetagId
MaxRetagId == 1

AcceptedTypes == {"image/jpeg", "image/png"}
MaxUploadBytes == 10 * 1024 * 1024
TitleRequired == TRUE

\* Validation, in order, first failure wins
Validate(contentType, size, title) ==
    IF contentType \notin AcceptedTypes THEN "bad_content_type"
    ELSE IF size > MaxUploadBytes THEN "too_large"
    ELSE IF TitleRequired /\ title = EmptyStr THEN "missing_title"
    ELSE "ok"

\* What the two models may produce for an image
RawCaptions == {Null, Some(<<"b", "a">>)}
RawTag(n, c) == [name |-> n, confidence |-> c]
RawTagLists ==
    { <<>>,
      <<RawTag(<<"c", "a">>, 92), RawTag(<<"b">>, 81)>>,
      <<RawTag(<<"C", "a">>, 40), RawTag(<<"c", "a">>, 92), RawTag(<<"B">>, 0)>> }

\* The adapter's deduplication: of the tags whose names differ only by case,
\* the one of highest confidence is kept (the first of them on a tie)
DedupTags(raw) ==
    LET best(i) == \A j \in 1..Len(raw) :
                      CanonicalName(raw[j].name) = CanonicalName(raw[i].name)
                      => \/ raw[j].confidence < raw[i].confidence
                         \/ raw[j].confidence = raw[i].confidence /\ i <= j
        kept == {raw[i] : i \in {k \in 1..Len(raw) : best(k)}}
    IN  SelectSeqBy(raw, kept)

\* Variant: a disabled adapter that can still raise or time out
AdapterOutcomes_DisabledRaises(loaded) == {"ok", "error", "timeout"}

\* How a model invocation can end: a disabled adapter answers at once and
\* never raises
AdapterOutcomes(loaded) == IF loaded THEN {"ok", "error", "timeout"} ELSE {"ok"}

\* caption(image) and score_tags(image)
AdapterCaption(loaded, c) == IF loaded THEN c ELSE Null
AdapterTags(loaded, raw)  == IF loaded THEN DedupTags(raw) ELSE <<>>

\* An ingest call: its position, the id of its photo, what the models
\* produced, how the call ended; of its second transaction the Tag names it
\* saw at its start, whether an insert met a row committed since, and why the
\* tags were not written; and of a re-tag the names whose row it replaced
IdleJob == [pc |-> "idle", id |-> 0, caption |-> Null, tags |-> <<>>,
            outcome |-> "none", seen |-> {}, conflict |-> FALSE, cause |-> "none",
            retag |-> FALSE, replaced |-> {}]

\* Step 2: the row of a new photo
PendingRow == [is_public |-> FALSE, state |-> "pending", caption |-> Null,
               tags |-> <<>>]

\* Step 4: the PhotoTag rows of the photo, one per tag, under the canonical name
PhotoTagRows(tags) ==
    [i \in 1..Len(tags) |-> TagObj(CanonicalName(tags[i].name), tags[i].confidence)]

\* The canonical names of a list of scored tags
CanonicalNames(tags) == {CanonicalName(tags[i].name) : i \in 1..Len(tags)}

\* Variant: the rows of a re-tag are added to the rows the photo has
PhotoTagsAfterWrite_Appends(old, new) == old \o PhotoTagRows(new)

\* The PhotoTag rows of a photo after tags are written to it: the row of a
\* (Photo, Tag) pair that exists is replaced, a pair without a row gets one
PhotoTagsAfterWrite(old, new) ==
    SelectSeqBy(old, {old[i] : i \in {k \in 1..Len(old) :
                                        CanonicalName(old[k].name) \notin CanonicalNames(new)}})
       \o PhotoTagRows(new)

\* Why the second transaction writes no tags: the models failed or timed
\* out, or the store failed on the tag writes.  An insert that meets the row
\* of another transaction is retried and is no failure
CommitFailure(inferred, dbOk, tags) ==
    IF ~inferred THEN "inference"
    ELSE IF ~dbOk /\ tags # <<>> THEN "store"
    ELSE "none"

\* Variant: a file write that fails leaves the partial file in the folder
UploadsAfterWrite_KeepsPartial(files, id, ok) == files \cup {id}

\* Step 1: the blob store after the write
UploadsAfterWrite(files, id, ok) == IF ok THEN files \cup {id} ELSE files

\* Variant: the second transaction leaves the state of the row alone
RowAfterCommit_StaysPending(row, job, ok) ==
    IF ok THEN [row EXCEPT !.caption = job.caption, !.tags = PhotoTagRows(job.tags)]
    ELSE row

\* Steps 4 and 5: the row after the second transaction
RowAfterCommit(row, job, ok) ==
    IF ok
    THEN [row EXCEPT !.state = "tagged", !.caption = job.caption,
                     !.tags = PhotoTagRows(job.tags)]
    ELSE [row EXCEPT !.state = "tag_failed"]

\* The row of a tagged photo after a re-tag: the new tags are written over
\* the rows the photo has, a caption that was produced is set; a re-tag that
\* failed leaves the row as it was
RowAfterRetag(row, job, ok) ==
    IF ok
    THEN [row EXCEPT !.caption = IF IsNull(job.caption) THEN row.caption ELSE job.caption,
                     !.tags = PhotoTagsAfterWrite(row.tags, job.tags)]
    ELSE row

ContentTypes == {"image/jpeg", "text/plain"}
FileSizes == {2 * 1024 * 1024, MaxUploadBytes, 15 * 1024 * 1024}
Titles == {EmptyStr, <<"A", "b">>}

\* ingest(owner, file_bytes, content_type, title): validation, and the unique
\* identifier of an accepted upload
IngestRequest(j, contentType, size, title) ==
    /\ jobs[j].pc = "idle"
    /\ LET v == Validate(contentType, size, title) IN
       IF v = "ok"
       THEN /\ nextId <= MaxPhotoId
            /\ jobs' = [jobs EXCEPT ![j] = [IdleJob EXCEPT !.pc = "accepted", !.id = nextId]]
            /\ nextId' = nextId + 1
       ELSE /\ jobs' = [jobs EXCEPT ![j] =
                          [IdleJob EXCEPT !.pc = "returned", !.outcome = "ValidationError"]]
            /\ UNCHANGED nextId
    /\ UNCHANGED <<dbPhotos, uploads, tagRows, modelsLoaded, returned, deletedIds, lastDelete,
                   gateVars, pageVars, exVars, uploadVars, apiVars, appVars, cardVars>>

\* Step 1: the bytes are written under the generated name, or the write fails
\* and the call ends with StorageError
IngestWriteFile(j) ==
    /\ jobs[j].pc = "accepted"
    /\ \E ok \in BOOLEAN :
          /\ uploads' = UploadsAfterWrite(uploads, jobs[j].id, ok)
          /\ jobs' = [jobs EXCEPT ![j].pc = IF ok THEN "stored" ELSE "returned",
                                  ![j].outcome = IF ok THEN "none" ELSE "StorageError"]
    /\ UNCHANGED <<dbPhotos, nextId, tagRows, modelsLoaded, returned, deletedIds, lastDelete,
                   gateVars, pageVars, exVars, uploadVars, apiVars, appVars, cardVars>>

\* Step 2: the Photo row is committed in state pending
IngestCreateRow(j) ==
    /\ jobs[j].pc = "stored"
    /\ dbPhotos' = With(dbPhotos, jobs[j].id, PendingRow)
    /\ jobs' = [jobs EXCEPT ![j].pc = "pending"]
    /\ UNCHANGED <<uploads, nextId, tagRows, modelsLoaded, returned, deletedIds, lastDelete,
                   gateVars, pageVars, exVars, uploadVars, apiVars, appVars, cardVars>>

\* Step 3: the models run, outside any transaction
IngestInfer(j) ==
    /\ jobs[j].pc = "pending"
    /\ \E out \in AdapterOutcomes(modelsLoaded), c \in RawCaptions, raw \in RawTagLists :
          IF out = "ok"
          THEN jobs' = [jobs EXCEPT ![j].pc = "inferred",
                                    ![j].caption = AdapterCaption(modelsLoaded, c),
                                    ![j].tags = AdapterTags(modelsLoaded, raw)]
          ELSE jobs' = [jobs EXCEPT ![j].pc = "failed"]
    /\ UNCHANGED <<storeVars, modelsLoaded, returned, deletedIds, lastDelete,
                   gateVars, pageVars, exVars, uploadVars, apiVars, appVars, cardVars>>

\* The second transaction starts, after the models have answered: it sees
\* the Tag rows committed so far
IngestBeginCommit(j) ==
    /\ jobs[j].pc = "inferred"
    /\ jobs' = [jobs EXCEPT ![j].pc = "committing", ![j].seen = DOMAIN tagRows]
    /\ UNCHANGED <<storeVars, modelsLoaded, returned, deletedIds, lastDelete,
                   gateVars, pageVars, exVars, uploadVars, apiVars, appVars, cardVars>>

\* Steps 4 and 5, the second transaction commits: Tag rows are matched or
\* created, the PhotoTag rows and the caption are written and the state is
\* set; if the models failed, or the tag writes fail, only the state is set.
\* The Photo is returned to the caller either way.
IngestCommit(j) ==
    /\ jobs[j].pc \in {"committing", "failed"}
    /\ ~jobs[j].retag
    /\ \E dbOk \in BOOLEAN :
          LET id == jobs[j].id
              names == CanonicalNames(jobs[j].tags)
              cause == CommitFailure(jobs[j].pc = "committing", dbOk, jobs[j].tags)
              ok == cause = "none"
          IN  /\ dbPhotos' = [dbPhotos EXCEPT ![id] = RowAfterCommit(dbPhotos[id], jobs[j], ok)]
              /\ tagRows' = IF ok THEN TagRowsAfterUpsert(tagRows, names, jobs[j].seen)
                                  ELSE tagRows
              /\ returned' = returned \cup {id}
              /\ jobs' = [jobs EXCEPT ![j].pc = "returned", ![j].outcome = "Photo",
                                      ![j].cause = cause,
                                      ![j].conflict =
                                          ok /\ names \cap (DOMAIN tagRows \ jobs[j].seen) # {}]
    /\ UNCHANGED <<uploads, nextId, modelsLoaded, deletedIds, lastDelete, gateVars, pageVars, exVars, uploadVars, apiVars, appVars, cardVars>>

\* A re-tag of a tagged photo is requested: the models are to run again on
\* its stored file
IngestRetag(j, id) ==
    /\ jobs[j].pc = "idle"
    /\ id <= MaxRetagId
    /\ id \in DOMAIN dbPhotos
    /\ dbPhotos[id].state = "tagged"
    /\ jobs' = [jobs EXCEPT ![j] = [IdleJob EXCEPT !.pc = "pending", !.id = id,
                                                   !.retag = TRUE]]
    /\ UNCHANGED <<storeVars, modelsLoaded, returned, deletedIds, lastDelete,
                   gateVars, pageVars, exVars, uploadVars, apiVars, appVars, cardVars>>

\* The second transaction of a re-tag commits: NotFoundError if the photo was
\* deleted meanwhile; otherwise Tag rows are matched or created and the tags
\* are written over the PhotoTag rows of the photo
IngestRetagCommit(j) ==
    /\ jobs[j].pc \in {"committing", "failed"}
    /\ jobs[j].retag
    /\ LET id == jobs[j].id IN
       IF id \notin DOMAIN dbPhotos
       THEN /\ jobs' = [jobs EXCEPT ![j].pc = "returned", ![j].outcome = "NotFoundError"]
            /\ UNCHANGED <<dbPhotos, tagRows>>
       ELSE \E dbOk \in BOOLEAN :
               LET names == CanonicalNames(jobs[j].tags)
                   cause == CommitFailure(jobs[j].pc = "committing", dbOk, jobs[j].tags)
                   ok == cause = "none"
               IN  /\ dbPhotos' = [dbPhotos EXCEPT ![id] = RowAfterRetag(dbPhotos[id], jobs[j], ok)]
                   /\ tagRows' = IF ok THEN TagRowsAfterUpsert(tagRows, names, jobs[j].seen)
                                       ELSE tagRows
                   /\ jobs' = [jobs EXCEPT ![j].pc = "returned", ![j].outcome = "Photo",
                                           ![j].cause = cause,
                                           ![j].conflict =
                                               ok /\ names \cap (DOMAIN tagRows \ jobs[j].seen) # {},
                                           ![j].replaced =
                                               IF ok THEN names \cap TagNamesOf(dbPhotos[id])
                                                     ELSE {}]
    /\ UNCHANGED <<uploads, nextId, modelsLoaded, returned, deletedIds, lastDelete,
                   gateVars, pageVars, exVars, uploadVars, apiVars, appVars, cardVars>>

\* The caller has its answer
IngestDone(j) ==
    /\ jobs[j].pc = "returned"
    /\ jobs' = [jobs EXCEPT ![j] = IdleJob]
    /\ UNCHANGED <<storeVars, modelsLoaded, returned, deletedIds, lastDelete,
                   gateVars, pageVars, exVars, uploadVars, apiVars, appVars, cardVars>>

\* delete(photo, requester) by the owner or an admin, on a photo whose ingest
\* is over: the file, the row and its PhotoTag rows go, Tag rows stay
IngestDelete(u, id) ==
    /\ id \in DOMAIN dbPhotos
    /\ dbPhotos[id].state # "pending"
    /\ StoreDelete(u, id)
    /\ deletedIds' = deletedIds \cup {id}
    /\ UNCHANGED <<modelsLoaded, jobs, returned, lastDelete, gateVars, pageVars, exVars, uploadVars, apiVars, appVars, cardVars>>

\* SpecIngest: the service alone, from an empty store
IngestInit ==
    /\ dbPhotos = <<>>
    /\ uploads = {}
    /\ nextId = 1
    /\ tagRows = TagTable({})
    /\ modelsLoaded \in BOOLEAN
    /\ jobs = [j \in 1..MaxJobs |-> IdleJob]
    /\ returned = {}
    /\ deletedIds = {}
    /\ lastDelete = NoDelete
    /\ isLoaded = FALSE
    /\ principal = NoUser
    /\ location = "/"
    /\ mutations = {}
    /\ page = "Dashboard"
    /\ PageInit
    /\ ExploreInit
    /\ UploadInit
    /\ ApiInit
    /\ AppInit
    /\ CardInit

IngestNext ==
    \/ \E j \in 1..MaxJobs, ct \in ContentTypes, size \in FileSizes, t \in Titles :
          IngestRequest(j, ct, size, t)
    \/ \E j \in 1..MaxJobs : IngestWriteFile(j)
    \/ \E j \in 1..MaxJobs : IngestCreateRow(j)
    \/ \E j \in 1..MaxJobs : IngestInfer(j)
    \/ \E j \in 1..MaxJobs : IngestBeginCommit(j)
    \/ \E j \in 1..MaxJobs : IngestCommit(j)
    \/ \E j \in 1..MaxJobs : IngestDone(j)
    \/ \E u \in Users, id \in PhotoIds : IngestDelete(u, id)

SpecIngest == IngestInit /\ [][IngestNext]_vars

\* The same service under the scheduling section 5 gives it: a model
\* invocation is bounded by its timeout and the second transaction is short,
\* so a call that holds a pending row gets each of its steps
SpecIngestLive ==
    /\ SpecIngest
    /\ \A j \in 1..MaxJobs :
          WF_vars(IngestInfer(j)) /\ WF_vars(IngestBeginCommit(j)) /\ WF_vars(IngestCommit(j))

\* SpecRetag: the service with the explicit re-tag operation, from a store
\* that holds the photos of two completed ingests, one with two tags and
\* one with none
TaggedRow(raw) ==
    RowAfterCommit(PendingRow, [IdleJob EXCEPT !.tags = DedupTags(raw)], TRUE)

RetagInit ==
    /\ dbPhotos = <<TaggedRow(<<RawTag(<<"c", "a">>, 92), RawTag(<<"b">>, 81)>>),
                    TaggedRow(<<>>)>>
    /\ uploads = {1, 2}
    /\ nextId = 3
    /\ tagRows = TagTable({<<"c", "a">>, <<"b">>})
    /\ modelsLoaded = TRUE
    /\ jobs = [j \in 1..MaxJobs |-> IdleJob]
    /\ returned = {1, 2}
    /\ deletedIds = {}
    /\ lastDelete = NoDelete
    /\ isLoaded = FALSE
    /\ principal = NoUser
    /\ location = "/"
    /\ mutations = {}
    /\ page = "Dashboard"
    /\ PageInit
    /\ ExploreInit
    /\ UploadInit
    /\ ApiInit
    /\ AppInit
    /\ CardInit

RetagNext ==
    \/ IngestNext
    \/ \E j \in 1..MaxJobs, id \in PhotoIds : IngestRetag(j, id)
    \/ \E j \in 1..MaxJobs : IngestRetagCommit(j)

SpecRetag == RetagInit /\ [][RetagNext]_vars

\* delete(photo, requester) for any verified requester and any photo id:
\* NotFoundError, NotAuthorizedError, or the file, the Photo row and its
\* PhotoTag rows are removed
ServiceDelete(u, id) ==
    /\ lastDelete' = [by |-> u, id |-> id, outcome |-> DeleteOutcome(dbPhotos, u, id)]
    /\ IF DeleteOutcome(dbPhotos, u, id) = "ok"
       THEN StoreDelete(u, id) /\ deletedIds' = deletedIds \cup {id}
       ELSE UNCHANGED <<storeVars, deletedIds>>
    /\ UNCHANGED <<modelsLoaded, jobs, returned, gateVars, pageVars, exVars, uploadVars, apiVars, appVars, cardVars>>

\* A completed ingest, and an update of a photo by its owner
ServiceUpload ==
    /\ StoreUpload
    /\ UNCHANGED <<ingestVars, gateVars, pageVars, exVars, uploadVars, apiVars, appVars, cardVars>>

ServiceUpdate(id) ==
    /\ StoreUpdate(id)
    /\ UNCHANGED <<ingestVars, gateVars, pageVars, exVars, uploadVars, apiVars, appVars, cardVars>>

\* SpecDelete: the store and the delete operation, called by any user on any
\* photo id
DeleteInit ==
    /\ StoreInit
    /\ IngestIdle
    /\ isLoaded = FALSE
    /\ principal = NoUser
    /\ location = "/"
    /\ mutations = {}
    /\ page = "Dashboard"
    /\ PageInit
    /\ ExploreInit
    /\ UploadInit
    /\ ApiInit
    /\ AppInit
    /\ CardInit

DeleteNext ==
    \/ \E u \in Users, id \in PhotoIds : ServiceDelete(u, id)
    \/ ServiceUpload
    \/ \E id \in PhotoIds : ServiceUpdate(id)

SpecDelete == DeleteInit /\ [][DeleteNext]_vars

-----------------------------------------------------------------------------
(* API client (services/api.js): setAuthToken and the photoAPI methods      *)

Tokens == {NoToken, "t1", "t2"}
ApiMethods == {"getCurrentUser", "getUserPhotos", "getAllPhotos", "getExplorePhotos",
               "uploadPhoto", "deletePhoto"}

Bearer(token) == [scheme |-> "Bearer", token |-> token]

\* setAuthToken without its else branch: the header of the call before stays
SetAuthToken_KeepsHeader(header, token) ==
    IF token # NoToken THEN Bearer(token) ELSE header

\* setAuthToken(token): the value of api.defaults.headers.common.Authorization
\* afterwards; an absent token (null, undefined, '') deletes the header
SetAuthToken(header, token) ==
    IF token # NoToken THEN Bearer(token) ELSE NoHeader

\* photoAPI.<method>(token, ...): setAuthToken(token) and api.get / post /
\* delete run in one synchronous segment; the request's configuration, the
\* instance defaults merged in, is built by that call
ApiCall(k, method, token) ==
    /\ requests[k].pc = "idle"
    /\ authHeader' = SetAuthToken(authHeader, token)
    /\ requests' = [requests EXCEPT ![k] =
                        [pc |-> "called", method |-> method, token |-> token,
                         header |-> SetAuthToken(authHeader, token), wire |-> NoHeader]]
    /\ UNCHANGED <<storeVars, ingestVars, gateVars, pageVars, exVars, uploadVars,
                   appVars, cardVars>>

\* The adapter puts the request on the wire, with the headers of its
\* configuration
ApiDispatch(k) ==
    /\ requests[k].pc = "called"
    /\ requests' = [requests EXCEPT ![k].pc = "sent", ![k].wire = requests[k].header]
    /\ UNCHANGED <<storeVars, ingestVars, gateVars, pageVars, exVars, uploadVars,
                   authHeader, appVars, cardVars>>

\* The response arrives (or the request fails): the awaiting method returns
ApiSettle(k) ==
    /\ requests[k].pc = "sent"
    /\ requests' = [requests EXCEPT ![k] = IdleRequest]
    /\ UNCHANGED <<storeVars, ingestVars, gateVars, pageVars, exVars, uploadVars,
                   authHeader, appVars, cardVars>>

ApiNext ==
    \/ \E k \in 1..MaxCalls, method \in ApiMethods, token \in Tokens : ApiCall(k, method, token)
    \/ \E k \in 1..MaxCalls : ApiDispatch(k)
    \/ \E k \in 1..MaxCalls : ApiSettle(k)

\* SpecApi: calls of photoAPI from any components, sharing the one instance
SpecApi == DeleteInit /\ [][ApiNext]_vars

\* C23: every request on the wire carries the Bearer header of the token its
\* own call was given, whatever other calls ran in between, and a call given
\* no token sends no Authorization header
RequestCarriesItsOwnToken ==
    \A k \in 1..MaxCalls :
        requests[k].pc = "sent" =>
            requests[k].wire = (IF requests[k].token = NoToken THEN NoHeader
                                ELSE Bearer(requests[k].token))

\* A call without a token is on the wire after a call with a token, made
\* while the first was still in flight
TokenlessCallAfterTokenCall ==
    \E j, k \in 1..MaxCalls :
        /\ j # k
        /\ requests[j].pc \in {"called", "sent"} /\ requests[j].token # NoToken
        /\ requests[k].pc = "sent" /\ requests[k].token = NoToken
        /\ authHeader = NoHeader

-----------------------------------------------------------------------------
(* App (App.jsx): the role effect and the choice of the navigation bar      *)

\* The dependencies of the role effect; getToken changes with the session
EffectDeps == <<principal # NoUser, isLoaded>>

\* Effects are flushed before the next update is taken
EffectPending == effectSeen # EffectDeps

\* What App returns above its routes
AppNavbar ==
    IF ~isLoaded \/ (principal # NoUser /\ ~roleLoaded) THEN "spinner"
    ELSE IF appRole = "admin" THEN "AdminNavbar" ELSE "Navbar"

\* Clerk finishes loading, with or without a session
AppClerkLoaded(u) ==
    /\ ~EffectPending
    /\ ~isLoaded
    /\ isLoaded' = TRUE
    /\ principal' = u
    /\ UNCHANGED <<storeVars, ingestVars, pageVars, exVars, uploadVars, apiVars, appVars,
                   cardVars, location, mutations>>

AppSignIn(u) ==
    /\ ~EffectPending
    /\ isLoaded /\ principal = NoUser
    /\ principal' = u
    /\ UNCHANGED <<storeVars, ingestVars, pageVars, exVars, uploadVars, apiVars, appVars,
                   cardVars, isLoaded, location, mutations>>

AppSignOut ==
    /\ ~EffectPending
    /\ isLoaded /\ principal # NoUser
    /\ principal' = NoUser
    /\ UNCHANGED <<storeVars, ingestVars, pageVars, exVars, uploadVars, apiVars, appVars,
                   cardVars, isLoaded, location, mutations>>

\* useEffect(fetchUserRole, [isSignedIn, isLoaded, getToken]): the part up
\* to the first await
RunRoleEffect ==
    /\ EffectPending
    /\ effectSeen' = EffectDeps
    /\ IF principal # NoUser /\ isLoaded
       THEN /\ roleFetch' = roleFetch \cup {principal}
            /\ UNCHANGED <<appRole, roleLoaded>>
       ELSE /\ roleLoaded' = TRUE
            /\ UNCHANGED <<appRole, roleFetch>>
    /\ UNCHANGED <<storeVars, ingestVars, gateVars, pageVars, exVars, uploadVars, apiVars,
                   cardVars>>

\* getToken and getCurrentUser of one run of the effect settle: try, catch
\* and finally
RoleFetchSettles(u, ok) ==
    /\ u \in roleFetch
    /\ roleFetch' = roleFetch \ {u}
    /\ appRole' = IF ok THEN RoleOf(u) ELSE NoRole
    /\ roleLoaded' = TRUE
    /\ UNCHANGED <<storeVars, ingestVars, gateVars, pageVars, exVars, uploadVars, apiVars,
                   cardVars, effectSeen>>

AppNext ==
    \/ \E u \in Users \cup {NoUser} : AppClerkLoaded(u)
    \/ \E u \in Users : AppSignIn(u)
    \/ AppSignOut
    \/ RunRoleEffect
    \/ \E u \in Users, ok \in BOOLEAN : RoleFetchSettles(u, ok)

\* SpecApp: App from its mount, through sessions of several accounts
SpecApp == DeleteInit /\ [][AppNext]_vars

\* C24: the admin navigation bar is on screen only while the signed-in
\* principal's role is admin
AdminNavbarOnlyForAdmin ==
    AppNavbar = "AdminNavbar" => (principal # NoUser /\ RoleOf(principal) = "admin")

-----------------------------------------------------------------------------
(* Properties of the filters and the sort, checked under SpecBrowse          *)

\* The page shows its loaded list
Browsing == ~loading /\ error = NoError /\ photos # <<>>

\* q occurs, ignoring case, in an optional text field
OccursIn(field, q) ==
    /\ field # Null
    /\ \E i \in 0..(Len(field[1]) - Len(q)) :
          \A k \in 1..Len(q) : ToLowerChar(field[1][i + k]) = ToLowerChar(q[k])
\* q occurs in the title, the description or the caption
TextMatch(p, q) == OccursIn(p.title, q) \/ OccursIn(p.description, q) \/ OccursIn(p.caption, q)
\* A tag of the photo is named t, ignoring case
TagMatch(p, t) ==
    \E i \in 1..Len(p.tags) :
       /\ Len(p.tags[i].name) = Len(t)
       /\ \A k \in 1..Len(t) : ToLowerChar(p.tags[i].name[k]) = ToLowerChar(t[k])
PhotosWhere(P(_)) == {photos[i].id : i \in {k \in 1..Len(photos) : P(photos[k])}}

\* C13 as stated: with a non-empty query, and in Gallery no tag selected, the
\* photos shown are exactly those with the query, ignoring case, in the title,
\* the description or the caption.
TextQueryOverThreeFields ==
    (Browsing /\ searchQuery # EmptyStr /\ selectedTags = <<>>)
       => LET Hit(p) == TextMatch(p, searchQuery)
          IN  Ids(Displayed) = PhotosWhere(Hit)

\* C14 as stated: in Gallery with one tag selected and no query, the photos
\* shown are exactly those with a tag of that name, ignoring case.
TagFilterIgnoresCase ==
    (Browsing /\ page = "Gallery" /\ searchQuery = EmptyStr /\ Len(selectedTags) = 1)
       => LET Hit(p) == TagMatch(p, selectedTags[1])
          IN  Ids(filteredPhotos) = PhotosWhere(Hit)

\* C15 as stated: Gallery shows exactly the photos that satisfy every active
\* filter: the query if there is one, and each of the selected tags.
FiltersComposeWithAnd ==
    (Browsing /\ page = "Gallery")
       => LET Hit(p) == /\ searchQuery # EmptyStr => TextMatch(p, searchQuery)
                        /\ \A i \in 1..Len(selectedTags) : TagMatch(p, selectedTags[i])
          IN  Ids(filteredPhotos) = PhotosWhere(Hit)

\* C16 as stated: with an empty query and no tag selected, the photos shown
\* are the whole loaded list.
EmptyFilterShowsAll ==
    (Browsing /\ searchQuery = EmptyStr /\ selectedTags = <<>>)
       => Ids(Displayed) = Ids(photos)

\* The filtered list before it is sorted
Unsorted == GalleryFilterEffect(photos, selectedTags, searchQuery, "none")
Before(i, j) ==
    CASE sortBy = "recent" -> filteredPhotos[i].uploaded_at >= filteredPhotos[j].uploaded_at
      [] sortBy = "oldest" -> filteredPhotos[i].uploaded_at <= filteredPhotos[j].uploaded_at
      [] sortBy = "title"  ->
            localeCompare(TitleOrEmpty(filteredPhotos[i]), TitleOrEmpty(filteredPhotos[j])) <= 0
      [] OTHER -> FALSE

\* C17: Gallery starts with the key 'recent'; its list is in descending order
\* of timestamp under 'recent', ascending under 'oldest' and in ascending
\* order of title under 'title'; and the list holds exactly the photos of
\* the filtered set, each once.
SortKeysOrderTheList ==
    /\ load.pc = "getToken" => sortBy = "recent"
    /\ page = "Gallery" =>
          /\ \A i, j \in 1..Len(filteredPhotos) : i < j => Before(i, j)
          /\ Len(filteredPhotos) = Len(Unsorted)
          /\ Range(filteredPhotos) = Range(Unsorted)

\* Gallery shows three photos, oldest first
ThreeShownOldestFirst ==
    /\ Browsing /\ page = "Gallery" /\ sortBy = "oldest"
    /\ Len(filteredPhotos) = 3
    /\ filteredPhotos[1].uploaded_at < filteredPhotos[3].uploaded_at

InInsertionOrder ==
    \A i, j \in 1..Len(filteredPhotos) :
       (i < j /\ filteredPhotos[i].uploaded_at = filteredPhotos[j].uploaded_at)
          => filteredPhotos[i].id < filteredPhotos[j].id

\* C18 as stated: under every sort key, photos with identical timestamps
\* are shown in insertion order.
TiesInInsertionOrder == page = "Gallery" => InInsertionOrder

\* C18: under the keys 'recent' and 'oldest', photos with identical
\* timestamps are shown in insertion order (ascending id), after any sequence
\* of sort-key and filter changes.
TimestampTiesInInsertionOrder ==
    (page = "Gallery" /\ sortBy \in {"recent", "oldest"}) => InInsertionOrder

\* A user's two photos of one timestamp, shown under 'oldest' 
TiedPhotosShownOldestFirst ==
    /\ Browsing /\ page = "Gallery" /\ sortBy = "oldest"
    /\ userRole = "user"
    /\ Len(filteredPhotos) = 2
    /\ filteredPhotos[1].uploaded_at = filteredPhotos[2].uploaded_at
    /\ filteredPhotos[1].id < filteredPhotos[2].id

-----------------------------------------------------------------------------
(* Properties of Gallery's tag filter, checked under SpecTags               *)

\* C27: once Gallery has loaded, allTags is the sorted, duplicate-free list
\* of the tag names of the photos it holds, and every selected tag is one of
\* allTags
TagFilterConsistent ==
    (page = "Gallery" /\ load.pc = "done") =>
        /\ allTags = AllTagsOf(page, photos)
        /\ Range(selectedTags) \subseteq Range(allTags)

\* The second half alone: a selected tag is one of allTags
SelectedTagsAreListed ==
    (page = "Gallery" /\ load.pc = "done") => Range(selectedTags) \subseteq Range(allTags)

-----------------------------------------------------------------------------
(* Properties of the busy flags, checked under SpecBusy                     *)

\* A load of Dashboard or Gallery ends: loading is cleared; on failure the
\* error is set and the photos stay, on success the answer is taken
LoadEndsClean ==
    (load.pc # "done" /\ load'.pc = "done") =>
        /\ loading' = FALSE
        /\ \/ error' = FailedToLoad /\ photos' = photos
           \/ /\ error' = error
              /\ photos' = PhotosResponse(dbPhotos, load.token, load.api).data

\* The same for Explore's loadPhotos
ExploreLoadEndsClean ==
    (exLoad = "fetching" /\ exLoad' = "done") =>
        /\ exLoading' = FALSE
        /\ \/ exError' # NoError /\ exPhotos' = exPhotos
           \/ exError' = exError /\ exPhotos' = NormalizeUploads(UploadList(uploads))

\* handleUpload ends: uploading is cleared; on failure the error is set and
\* the form keeps its file, preview, title and description
UploadEndsClean ==
    (uploadCall.pc = "settled" /\ uploadCall'.pc = "idle" /\ location' = location) =>
        /\ uploading' = FALSE
        /\ ~Val(uploadCall.response).ok =>
              /\ uploadError' # NoError
              /\ UNCHANGED <<selectedFile, preview, uploadTitle, uploadDescription>>

\* No upload request starts while one is running
NoSecondUpload ==
    uploading => ~(uploadCall'.pc = "token" /\ uploadCall.pc # "token")

-----------------------------------------------------------------------------
(* Properties of PhotoCard, checked under SpecCard and SpecCardLive         *)

\* A delete attempt of the card has ended and the photo is still listed
AttemptEndedPhotoKept(id) ==
    /\ isDeleting[id]
    /\ cardCall[id] = 0
    /\ alert = NoAlert
    /\ id \in Ids(photos)

\* C28: after a delete attempt that does not remove the photo, the card
\* returns to its idle state (or the photo leaves the list after all)
CardRecovers ==
    \A id \in PhotoIds :
        AttemptEndedPhotoKept(id) ~> (CardIdle(id) \/ id \notin Ids(photos))

\* The parts of the same claim about the controls: onDelete is called only
\* from the confirm state of a card that is not deleting
CardDeleteOnlyFromConfirm ==
    [][\A id \in PhotoIds :
          (cardCall'[id] # cardCall[id] /\ cardCall'[id] # 0)
              => (showDeleteConfirm[id] /\ ~isDeleting[id])
      ]_vars

\* A card whose attempt ended with the photo kept never changes again
StuckCardStaysStuck ==
    [][\A id \in PhotoIds :
          (AttemptEndedPhotoKept(id) /\ id \in Ids(photos'))
              => (isDeleting'[id] /\ showDeleteConfirm'[id])
      ]_vars

-----------------------------------------------------------------------------
(* Properties of the photo modal and of the ways to start a delete,         *)
(* checked under SpecModal                                                  *)

\* Every delete call that starts, starts in a step in which the user
\* confirmed the dialog of a card's button or of the modal's button
DeleteRequestsAreConfirmed ==
    [][ (\E k \in 1..MaxDeleteOps : delOps[k].pc = "idle" /\ delOps'[k].pc # "idle")
           => \/ \E id \in PhotoIds : CardDelete(id, TRUE)
              \/ ModalDelete(TRUE) ]_vars

\* C22 as stated, its last part: a declined confirmation, of a card's delete
\* button or of the modal's, sends nothing and changes nothing.
DecliningChangesNothing ==
    [][ ((\E id \in PhotoIds : CardDelete(id, FALSE)) \/ ModalDelete(FALSE))
           => UNCHANGED vars ]_vars

\* Position of the modal's photo in the displayed list, 0 if it is not there
PositionOfSelected ==
    IF selectedPhoto \in Ids(filteredPhotos)
    THEN CHOOSE i \in 1..Len(filteredPhotos) : filteredPhotos[i].id = selectedPhoto
    ELSE 0

\* C29: in Gallery 'prev' on the first and 'next' on the last photo of
\* filteredPhotos leave selectedPhoto as it is, from any other position the
\* neighbour is selected, and whatever filteredPhotos is (empty, or without
\* the selected photo) the modal's photo after a navigation is the one before
\* or a photo of filteredPhotos, never undefined.
NavigationStaysInList ==
    /\ [](selectedPhoto # Undefined)
    /\ [][ \A d \in {"prev", "next"} : Navigate(d) =>
             LET i == PositionOfSelected
                 n == Len(filteredPhotos) IN
             /\ selectedPhoto' \in Ids(filteredPhotos) \cup {selectedPhoto}
             /\ (d = "prev" /\ i = 1) => selectedPhoto' = selectedPhoto
             /\ (d = "next" /\ i = n) => selectedPhoto' = selectedPhoto
             /\ (d = "prev" /\ i > 1) => selectedPhoto' = filteredPhotos[i - 1].id
             /\ (d = "next" /\ i >= 1 /\ i < n) => selectedPhoto' = filteredPhotos[i + 1].id
             /\ n = 0 => selectedPhoto' = selectedPhoto ]_vars

\* Gallery's modal is open on a photo that a delete has taken out of the
\* displayed list, which still holds photos
ModalOnRemovedPhoto ==
    /\ page = "Gallery"
    /\ ModalShown
    /\ selectedPhoto \in deletedOk
    /\ selectedPhoto \notin Ids(filteredPhotos)
    /\ Len(filteredPhotos) >= 2

-----------------------------------------------------------------------------
(* Properties of the Ingestion Pipeline                                     *)

StateOf(id) == dbPhotos[id].state

\* A row appears in state pending, and the state of a row changes only from
\* pending, to tagged or to tag_failed
LifecycleStep ==
    \A id \in PhotoIds :
       /\ id \notin DOMAIN dbPhotos /\ id \in DOMAIN dbPhotos'
             => dbPhotos'[id].state = "pending"
       /\ id \in DOMAIN dbPhotos /\ id \in DOMAIN dbPhotos'
          /\ dbPhotos'[id].state # StateOf(id)
             => StateOf(id) = "pending" /\ dbPhotos'[id].state \in {"tagged", "tag_failed"}
       /\ id \in deletedIds => id \notin DOMAIN dbPhotos'

DisabledModeTagsNothing ==
    ~modelsLoaded =>
       \A id \in DOMAIN dbPhotos :
          /\ StateOf(id) # "tag_failed"
          /\ dbPhotos[id].tags = <<>>
          /\ IsNull(dbPhotos[id].caption)
          /\ id \in returned => StateOf(id) = "tagged"

\* With the adapter disabled an ingest has returned a photo
DisabledModeIngestReturned ==
    /\ ~modelsLoaded
    /\ \E id \in returned : id \in DOMAIN dbPhotos /\ StateOf(id) = "tagged"

\* C19: in every state each photo has at most one PhotoTag row per Tag:
\* the canonical names of the rows of a photo are pairwise different, so tag
\* names that differ only by case have one row, and a re-tag has replaced
\* the row of a pair that existed.  Every row carries the canonical name and
\* a confidence within the scale.
OnePhotoTagPerPair ==
    \A id \in DOMAIN dbPhotos :
       LET rows == dbPhotos[id].tags IN
       /\ \A i, k \in 1..Len(rows) :
             i # k => CanonicalName(rows[i].name) # CanonicalName(rows[k].name)
       /\ \A i \in 1..Len(rows) :
             /\ rows[i].name = CanonicalName(rows[i].name)
             /\ rows[i].confidence \in 0..100

\* A re-tag has replaced the rows of both tags of a photo, one of them by
\* a tag the models named in upper case
RetagReplacedRows ==
    \E j \in 1..MaxJobs :
       /\ jobs[j].pc = "returned" /\ jobs[j].retag
       /\ Cardinality(jobs[j].replaced) = 2
       /\ jobs[j].id \in DOMAIN dbPhotos
       /\ Len(dbPhotos[jobs[j].id].tags) = 2
       /\ \E i \in 1..Len(jobs[j].tags) : jobs[j].tags[i].name # CanonicalName(jobs[j].tags[i].name)

\* C20: under every interleaving of the ingest calls there is exactly one
\* Tag row for each canonical name in use, every photo is associated with
\* the Tag rows of its names, and an ingest whose models answered and whose
\* tag writes the store did not fail has its photo tagged with every tag,
\* also when its insert met the row of the other ingest.
OneTagRowPerName ==
    /\ \A n \in DOMAIN tagRows : tagRows[n] = 1 /\ n = CanonicalName(n)
    /\ \A id \in DOMAIN dbPhotos : TagNamesOf(dbPhotos[id]) \subseteq DOMAIN tagRows
    /\ \A j \in 1..MaxJobs :
          (jobs[j].pc = "returned" /\ jobs[j].outcome = "Photo" /\ jobs[j].id \in DOMAIN dbPhotos)
             => /\ jobs[j].cause \in {"none", "inference", "store"}
                /\ StateOf(jobs[j].id) = "tag_failed" <=> jobs[j].cause # "none"
                /\ jobs[j].cause = "none"
                      => TagNamesOf(dbPhotos[jobs[j].id]) = CanonicalNames(jobs[j].tags)

\* Two ingests ran at once and introduced the same tag names: both have
\* returned, both photos are tagged with the name, the insert of one met the
\* row the other had committed, and the name has one Tag row
SameTagFromTwoIngests ==
    \E j, k \in 1..MaxJobs :
       /\ j # k
       /\ jobs[j].pc = "returned" /\ jobs[k].pc = "returned"
       /\ jobs[j].id # jobs[k].id
       /\ jobs[j].conflict
       /\ \A id \in {jobs[j].id, jobs[k].id} :
             id \in DOMAIN dbPhotos /\ StateOf(id) = "tagged"
       /\ \E n \in DOMAIN tagRows :
             /\ n \in TagNamesOf(dbPhotos[jobs[j].id]) \cap TagNamesOf(dbPhotos[jobs[k].id])
             /\ tagRows[n] = 1

\* The delete request d, handled in this step, was made by the owner of the
\* photo or by an admin
Permitted(d) == OwnerOf(d.id) = d.by \/ RoleOf(d.by) = "admin"

\* C21: a delete succeeds only for the owner of the photo or an admin; any
\* other requester of an existing photo gets not_authorized (not not_found),
\* and the row with its PhotoTag rows, the file and the Tag rows are as they
\* were; a delete that succeeds removes the row with its PhotoTag rows and
\* the file, leaves every other photo alone and removes no Tag row.
DeleteNeedsOwnerOrAdmin ==
    [][ lastDelete' # lastDelete =>
          LET d == lastDelete' IN
          /\ d.outcome = "ok" <=> (d.id \in DOMAIN dbPhotos /\ Permitted(d))
          /\ d.outcome = "not_authorized" <=> (d.id \in DOMAIN dbPhotos /\ ~Permitted(d))
          /\ d.outcome = "not_found" <=> d.id \notin DOMAIN dbPhotos
          /\ d.outcome # "ok" => UNCHANGED <<dbPhotos, uploads, tagRows>>
          /\ d.outcome = "ok" =>
                /\ dbPhotos' = Without(dbPhotos, d.id)
                /\ d.id \notin uploads'
                /\ uploads' \ {d.id} = uploads \ {d.id}
                /\ tagRows' = tagRows ]_vars

\* bob asked for the delete of alice's photo 1 and got not_authorized; the
\* photo, its file and its tags are there, after an admin deleted photo 2
RefusedDeleteOfAnothersPhoto ==
    /\ lastDelete = [by |-> "bob", id |-> 1, outcome |-> "not_authorized"]
    /\ 1 \in DOMAIN dbPhotos /\ 1 \in uploads
    /\ dbPhotos[1].tags # <<>>
    /\ 2 \in deletedIds
    /\ DOMAIN tagRows # {}

-----------------------------------------------------------------------------
(* Properties of Dashboard and Gallery, checked under Spec                  *)

\* C2: the full listing (getAllPhotos) is requested only after getCurrentUser
\* answered role 'admin'; after any other role only getUserPhotos is
\* requested; and while the role request has not answered, or after it failed,
\* no photo request has been made.
AdminListingOnlyForAdmin ==
    /\ load.api = "getAllPhotos" => load.role = "admin"
    /\ load.api = "getUserPhotos" => load.role \notin {"admin", "none"}
    /\ load.role = "none" => load.api = "none"
    /\ load.pc = "getPhotos" => load.api \in {"getAllPhotos", "getUserPhotos"}

\* An admin's page has finished loading through getAllPhotos and holds a
\* photo of another user
AdminListingLoaded ==
    /\ load.pc = "done"
    /\ load.api = "getAllPhotos"
    /\ userRole = "admin"
    /\ \E i \in 1..Len(photos) : photos[i].user_id # principal

\* A successful end of loadUserAndPhotos: the step from getPhotos to done
\* that sets no error
LoadSucceeds ==
    /\ load.pc = "getPhotos"
    /\ load'.pc = "done"
    /\ error' = NoError

\* C3: for a non-admin principal U the list set by the load is exactly the
\* photos whose owner is U, as the store holds them at that moment, whatever
\* photos of other users exist; from then on every photo the page holds is
\* U's, and a step that adds, changes or deletes a row of another user leaves
\* the list as it is.
OwnerViewExact ==
    /\ [][(LoadSucceeds /\ load.role # "admin") =>
             /\ Ids(photos') = {i \in DOMAIN dbPhotos : OwnerOf(i) = principal}
             /\ \A i \in 1..Len(photos') :
                   photos'[i] = PhotoJson(dbPhotos, photos'[i].id)
             /\ Len(photos') = Cardinality(Ids(photos'))]_vars
    /\ [](userRole = "user" => \A i \in 1..Len(photos) : photos[i].user_id = principal)
    /\ [][(\E i \in PhotoIds :
              /\ OwnerOf(i) # principal
              /\ \/ (i \in DOMAIN dbPhotos) # (i \in DOMAIN dbPhotos')
                 \/ /\ i \in DOMAIN dbPhotos
                    /\ i \in DOMAIN dbPhotos'
                    /\ dbPhotos[i] # dbPhotos'[i])
            /\ userRole = "user"
          => photos' = photos]_vars

\* A non-admin's page holds exactly its two photos while a photo of another
\* user is in the store
OwnerViewAmongOthers ==
    /\ userRole = "user"
    /\ load.pc = "done"
    /\ Ids(photos) = {1, 2}
    /\ \E i \in DOMAIN dbPhotos : OwnerOf(i) # principal

\* C5: once a delete of a photo has succeeded, the photo is in none of the
\* lists of the page (photos, Gallery's filteredPhotos, the rendered cards),
\* and no later operation of the page brings it back.
DeletedPhotoStaysGone ==
    \A id \in deletedOk :
        /\ id \notin Ids(photos)
        /\ id \notin Ids(filteredPhotos)
        /\ id \notin Ids(Displayed)

\* C26: when two deletes of different photos were in flight together and both
\* succeeded, the list written by the one that completes last holds neither
\* of the two photos and keeps every other photo it held.  (The call that
\* completes last was started while the other photo was still listed, and
\* the other photo's delete has succeeded by now.)
OverlappingDeletesBothGone ==
    [][\A k \in DOMAIN delOps :
          (/\ delOps[k].pc = "answered"
           /\ delOps[k].resp = "ok"
           /\ delOps'[k].pc = "idle")
          => \A other \in (deletedOk \cap Ids(delOps[k].closure)) \ {delOps[k].photoId} :
                /\ other \notin Ids(photos')
                /\ delOps[k].photoId \notin Ids(photos')
                /\ Ids(photos) \ {other, delOps[k].photoId} \subseteq Ids(photos')
      ]_vars

\* C6: when a delete request fails, the continuation leaves the photo list
\* (and Gallery's filteredPhotos) as it was, records no successful delete and
\* shows the failure in an alert.
RefusedDeleteKeepsPhoto ==
    [][\A k \in DOMAIN delOps :
          (/\ delOps[k].pc = "answered"
           /\ delOps[k].resp # "ok"
           /\ delOps'[k].pc = "idle")
          => /\ photos' = photos
             /\ filteredPhotos' = filteredPhotos
             /\ deletedOk' = deletedOk
             /\ alert' = delOps[k].photoId]_vars

\* The alert of a failed delete is on screen and the photo is still in the
\* page's list and in the store
RefusedDeleteShown ==
    /\ alert # NoAlert
    /\ alert \in Ids(photos)
    /\ alert \in DOMAIN dbPhotos
    /\ alert \notin deletedOk

-----------------------------------------------------------------------------
(* Properties of the route gate and of Explore, checked under SpecGate      *)

\* C1: every photo that a load puts into Explore's list is one that the
\* explore retrieval returns at that moment, that is a photo whose
\* is_public flag is true.
ExploreListsOnlyPublic ==
    [][(exLoad = "fetching" /\ exLoad' = "done")
          => Ids(exPhotos') \subseteq Ids(ExploreView(dbPhotos))]_vars

\* C4: Upload, Dashboard and Gallery are rendered only with Clerk loaded and
\* a user signed in; a signed-out visit to a protected path renders the
\* redirect to /sign-in; every upload or delete request was started by a
\* signed-in user; and what a signed-out visitor can be shown is Home, the
\* sign-in and sign-up pages and Explore, none of which shows a control that
\* starts a delete or an upload, Explore's photo modal included.
MutationsNeedSignIn ==
    /\ (Rendered.kind = "page" /\ Rendered.name \in {"Upload", "Dashboard", "Gallery"})
          => isLoaded /\ isSignedIn
    /\ (isLoaded /\ ~isSignedIn /\ location \in ProtectedPaths)
          => Rendered = Redirect("/sign-in")
    /\ \A m \in mutations : m.by # NoUser
    /\ (~isSignedIn /\ Rendered.kind = "page")
          => /\ Rendered.name \in {"Home", "SignIn", "SignUp", "Explore"}
             /\ ~DeleteControlShown(Rendered, exSelected # 0)
             /\ ~UploadControlShown(Rendered)
    /\ Rendered = Page("Explore") => ~DeleteControlShown(Rendered, TRUE)

\* A signed-out visitor has a photo open in Explore's modal, after uploads
\* and deletes were started in an earlier session
SignedOutExploreModal ==
    /\ isLoaded
    /\ ~isSignedIn
    /\ Rendered = Page("Explore")
    /\ exSelected # 0
    /\ \E m \in mutations : m.kind = "delete"
    /\ \E m \in mutations : m.kind = "upload"

=============================================================================
